---- MODULE Spec2Model ----
(***************************************************************************)
(* Annotation-to-text reconciliation of scripts/tei_convertor_final.py:    *)
(* the label matcher (create_label_regex), the comment pass (add_comments, *)
(* add_comment), the critical-apparatus pass (add_critical_apparatus,      *)
(* add_critical) and the control flow of transform_tree / main.            *)
(*                                                                         *)
(* Texts are sequences of one-character strings.  Offsets are 0-based as   *)
(* in Python; None is modelled by 0 for node references (ids start at 1)   *)
(* and for paragraph references (paragraph indices start at 1).            *)
(***************************************************************************)
EXTENDS Integers, Sequences, FiniteSets, TLC

\* ------------------------------------------------------------------ bounds
\* paragraphs of a document
MaxParas == 2
\* annotations (comments plus apparatus entries) queued in one run
MaxAnnots == 2
\* body elements of the source document read by transform_tree
MaxElems == 4
\* cap of the count of loop iterations of one search
MaxSteps == 20

\* ------------------------------------------------------- program constants
\* get_sort_key: ordinal of a comment whose number field holds no digits
NoLineNum == 99999
\* parts of an apparatus entry
MaxParts == 4
\* sigla listed in an attribution
MaxSigla == 3
\* entries of an apparatus page in the merge of the special mode
MaxEntries == 3
\* characters of a field text a label is searched in on its own
MaxField == 4
\* iterations of the while loop of add_footnotes that are followed
MaxScans == 4

\* ------------------------------------------------------------------- texts
Min(a, b) == IF a < b THEN a ELSE b
Max(a, b) == IF a < b THEN b ELSE a

RECURSIVE Flatten(_)
Flatten(ss) == IF ss = <<>> THEN <<>> ELSE Head(ss) \o Flatten(Tail(ss))

\* Python slice text[i:j] (indices clamped to the length of the text)
Slice(text, i, j) ==
    LET lo == Min(i, Len(text))
        hi == Min(j, Len(text))
    IN  IF hi <= lo THEN <<>> ELSE SubSeq(text, lo + 1, hi)

WhiteSpace == {" "}
Punctuation == {",", ".", ":", ";", "?", "!"}
\* the one-character tokens that stand for non-ASCII characters
AAcute == "a_acute"
EllipsisChar == "ellipsis"
LowQuote == "low_quote"
SoftHyphen == "soft_hyphen"
\* the text IMPOSSIBLE_MATCH_PLACEHOLDER
Placeholder == "placeholder"

QuoteMarks == {"\"", LowQuote}
\* \w of Python's re on the characters of the model
WordChars == {"a", "b", "c", "n", "r", "t", "v", "x", "y", "z", AAcute, Placeholder,
              "A", "D", "J", "K", "L", "M", "S", "T", "V", "W",
              "0", "1", "2", "3", "6"}

IsWord(c) == c \in WordChars

RECURSIVE LStrip(_)
LStrip(text) ==
    IF text # <<>> /\ Head(text) \in WhiteSpace THEN LStrip(Tail(text)) ELSE text

RECURSIVE RStrip(_)
RStrip(text) ==
    IF text # <<>> /\ text[Len(text)] \in WhiteSpace
    THEN RStrip(SubSeq(text, 1, Len(text) - 1))
    ELSE text

\* str.strip()
Strip(text) == LStrip(RStrip(text))

\* '' if text is None else text (a missing text is the empty sequence here)
safe(text) == text

\* unidecode of one character
unidecode(c) ==
    CASE c = AAcute -> <<"a">>
      [] c = EllipsisChar -> <<".", ".", ".">>
      [] OTHER   -> <<c>>

strip_accents(text) == Flatten([i \in 1..Len(text) |-> unidecode(text[i])])

\* re.I on the characters of the model
Fold(c) == IF c = "A" THEN "a" ELSE c

\* ------------------------------------------------------------ the matcher
\* a token of the compiled label: a literal character ("lit"), the joiner
\* (?: |\|?<PO_\d+>)* ("join"), the wildcard .*? ("wild"), \b ("b"), the
\* optional quote [„"]? ("optq"), the optional punctuation [,.:;?!]? ("optp")
Tok(kind, c) == [kind |-> kind, c |-> c]

\* the periods from position i of text on
RECURSIVE Periods(_, _)
Periods(text, i) ==
    IF i <= Len(text) /\ text[i] = "." THEN 1 + Periods(text, i + 1) ELSE 0

\* 1 if a space stands at position i of text
SpaceAt(text, i) == IF i <= Len(text) /\ text[i] = " " THEN 1 ELSE 0

\* the length of the match of (\.{3,} ?|\.{2,} \.+ ?|\. \.{2,} ?) at position
\* i of text, 0 if there is none
ellipsis_run(text, i) ==
    LET p == Periods(text, i)
        q == Periods(text, i + p + 1)
    IN  IF p >= 3 THEN p + SpaceAt(text, i + p)
        ELSE IF p = 2 /\ SpaceAt(text, i + 2) = 1 /\ q >= 1
             THEN 3 + q + SpaceAt(text, i + 3 + q)
        ELSE IF p = 1 /\ SpaceAt(text, i + 1) = 1 /\ q >= 2
             THEN 2 + q + SpaceAt(text, i + 2 + q)
        ELSE 0

RECURSIVE replace_spaced(_)
\* stripped_label.replace('. . .', '...')
replace_spaced(text) ==
    IF Len(text) >= 5 /\ SubSeq(text, 1, 5) = <<".", " ", ".", " ", ".">>
    THEN <<".", ".", ".">> \o replace_spaced(SubSeq(text, 6, Len(text)))
    ELSE IF text = <<>> THEN <<>>
    ELSE <<Head(text)>> \o replace_spaced(Tail(text))

RECURSIVE label_tokens(_, _, _)
\* lines 1222-1241: the ellipsis runs of the label become wildcards (with \b
\* before them after a word character), the spaces of the literal parts go,
\* and the joiner stands between two characters of one literal part; lit
\* says that the token before position i is a character of a literal part
label_tokens(text, i, lit) ==
    IF i > Len(text) THEN <<>>
    ELSE CHOOSE parts \in
           {IF run > 0
            THEN (IF j > 1 /\ IsWord(tx[j - 1]) THEN <<Tok("b", "")>> ELSE <<>>)
                 \o <<Tok("wild", "")>> \o label_tokens(tx, j + run, FALSE)
            ELSE IF tx[j] = " " THEN label_tokens(tx, j + 1, lit)
            ELSE (IF lit THEN <<Tok("join", "")>> ELSE <<>>)
                 \o <<Tok("lit", tx[j])>> \o label_tokens(tx, j + 1, TRUE) :
            tx \in {text}, j \in {i}, run \in {ellipsis_run(text, i)}} : TRUE

\* create_label_regex, lines 1208-1268, for a label without language tags:
\* impossible says that the label reduced to nothing, tokens is the compiled
\* pattern (that of IMPOSSIBLE_MATCH_PLACEHOLDER then)
create_label_regex(label) ==
    CHOOSE rx \in
      {LET parts  == label_tokens(stripped_label, 1, FALSE)
           startw == stripped_label # <<>> /\ IsWord(Head(stripped_label))
           endw   == stripped_label # <<>> /\ IsWord(stripped_label[Len(stripped_label)])
           b(on)  == IF on THEN <<Tok("b", "")>> ELSE <<>>
       IN  IF parts = <<>>
           THEN [impossible |-> TRUE, tokens |-> <<Tok("lit", Placeholder)>>]
           ELSE [impossible |-> FALSE,
                 tokens |-> b(startw) \o <<Tok("optq", "")>> \o parts
                            \o b(endw) \o <<Tok("optp", "")>> \o b(endw)] :
       stripped_label \in
           {replace_spaced(strip_accents(SelectSeq(Strip(label),
                                                   LAMBDA c : c # SoftHyphen)))}} : TRUE

\* \b at offset i of text
WordBoundary(text, i) ==
    (i > 0 /\ IsWord(text[i])) # (i < Len(text) /\ IsWord(text[i + 1]))

\* the joiner consumes every space from offset i on: the offset after them
SkipJoiner(text, i) ==
    CHOOSE j \in i..Len(text) :
        /\ \A k \in (i + 1)..j : text[k] = " "
        /\ j = Len(text) \/ text[j + 1] # " "

RECURSIVE MatchTokens(_, _, _)
RECURSIVE MatchLazy(_, _, _)
\* the end offset of the match of tokens from offset i of text as the
\* backtracking of re finds it, or -1: an optional character is taken first
\* and given back if the rest fails, a wildcard takes as few as it can (the
\* operands are bound by a quantifier, which computes each of them once)
MatchTokens(tokens, text, i) ==
    IF tokens = <<>> THEN i
    ELSE CHOOSE e \in
           {LET opt(cs) ==
                    IF j < Len(tx) /\ tx[j + 1] \in cs
                    THEN CHOOSE r \in {IF taken >= 0 THEN taken
                                       ELSE MatchTokens(rest, tx, j) :
                                       taken \in {MatchTokens(rest, tx, j + 1)}} : TRUE
                    ELSE MatchTokens(rest, tx, j)
            IN  CASE t.kind = "lit" ->
                       IF j < Len(tx) /\ Fold(tx[j + 1]) = Fold(t.c)
                       THEN MatchTokens(rest, tx, j + 1) ELSE -1
                  [] t.kind = "join" ->
                       CHOOSE r \in {MatchTokens(rest, tx, k) :
                                       k \in {SkipJoiner(tx, j)}} : TRUE
                  [] t.kind = "b" ->
                       IF WordBoundary(tx, j) THEN MatchTokens(rest, tx, j) ELSE -1
                  [] t.kind = "optq" -> opt(QuoteMarks)
                  [] t.kind = "optp" -> opt(Punctuation)
                  [] OTHER -> MatchLazy(rest, tx, j) :
            t \in {Head(tokens)}, rest \in {Tail(tokens)}, tx \in {text},
            j \in {i}} : TRUE

\* .*? followed by rest from offset i on
MatchLazy(rest, text, i) ==
    CHOOSE e \in {IF here >= 0 THEN here
                  ELSE IF j < Len(tx) THEN MatchLazy(ts, tx, j + 1)
                  ELSE -1 :
                  ts \in {rest}, tx \in {text}, j \in {i},
                  here \in {MatchTokens(rest, text, i)}} : TRUE

\* end offset of the match of the regex that starts at offset s, or -1
MatchAt(rx, text, s) == MatchTokens(rx.tokens, text, s)

NoMatch == [found |-> FALSE, start |-> 0, end |-> 0]

\* the leftmost match among the end offsets ends (offset s -> MatchAt at s)
Leftmost(ends) ==
    IF \A s \in DOMAIN ends : ends[s] < 0 THEN NoMatch
    ELSE LET s == CHOOSE x \in DOMAIN ends :
                     ends[x] >= 0 /\ \A y \in DOMAIN ends : ends[y] >= 0 => x <= y
         IN  [found |-> TRUE, start |-> s, end |-> ends[s]]

\* label_regex.search(text): the leftmost match
regex_search(rx, text) ==
    CHOOSE m \in {Leftmost([s \in 0..Len(t) |-> MatchAt(r, t, s)]) :
                    r \in {rx}, t \in {text}} : TRUE

\* ---------------------------------------------------------------- the tree
\* The document is the sequence of the block elements (p) of div[1]; a block
\* is [text, kids]; a kid is a node record.  A node's tail belongs to the
\* node (the ElementTree data model of lxml), so a node inserted after a node
\* follows that node's tail.
ENCLOSING_TAGS == {"hi", "foreign", "add", "foreign_hi", "add_foreign_hi"}

\* a node without text, attributes or children
Element(id, tag) ==
    [id |-> id, tag |-> tag, text |-> <<>>, tail |-> <<>>, n |-> 0,
     label |-> <<>>, note |-> <<>>, lemwit |-> "", lem |-> <<>>, rdgs |-> <<>>]

NodeIds(tr) ==
    UNION {{tr[p].kids[k].id : k \in 1..Len(tr[p].kids)} : p \in 1..Len(tr)}

\* element.getparent() of a kid: the index of its block
getparent(tr, id) ==
    CHOOSE p \in 1..Len(tr) : \E k \in 1..Len(tr[p].kids) : tr[p].kids[k].id = id

\* parent.index(element), 0-based
index(tr, id) ==
    LET p == getparent(tr, id)
    IN  (CHOOSE k \in 1..Len(tr[p].kids) : tr[p].kids[k].id = id) - 1

NodeOf(tr, id) == tr[getparent(tr, id)].kids[index(tr, id) + 1]

\* element.getnext() of a kid: the id of the next sibling, 0 for None
getnext(tr, id) ==
    LET p == getparent(tr, id)
        k == index(tr, id) + 1
    IN  IF k < Len(tr[p].kids) THEN tr[p].kids[k + 1].id ELSE 0

\* element.getnext() of a block: the index of the next block, 0 for None
getnext_p(tr, p) == IF p < Len(tr) THEN p + 1 ELSE 0

\* list.insert(i, e), i 0-based
InsertAt(s, i, e) == SubSeq(s, 1, i) \o <<e>> \o SubSeq(s, i + 1, Len(s))

\* tree with the kids of block p replaced
WithKids(tr, p, kids) == [tr EXCEPT ![p].kids = kids]

\* tree with the tail / text of kid id replaced
WithTail(tr, id, t) ==
    [tr EXCEPT ![getparent(tr, id)].kids[index(tr, id) + 1].tail = t]

\* the pbs of every page, whatever n
RECURSIVE AnyPbsOfKids(_)
AnyPbsOfKids(kids) ==
    IF kids = <<>> THEN <<>>
    ELSE (IF Head(kids).tag = "pb" THEN <<Head(kids).id>> ELSE <<>>)
         \o AnyPbsOfKids(Tail(kids))

xpath_any_pb(tr, n) == Flatten([p \in 1..Len(tr) |-> AnyPbsOfKids(tr[p].kids)])

\* tree.xpath('.../div[1]/p/pb[@n="N"]'): the ids of the pb kids of page n,
\* in document order
RECURSIVE PbsOfKids(_, _)
PbsOfKids(kids, n) ==
    IF kids = <<>> THEN <<>>
    ELSE (IF Head(kids).tag = "pb" /\ Head(kids).n = n THEN <<Head(kids).id>> ELSE <<>>)
         \o PbsOfKids(Tail(kids), n)

xpath_pb(tr, n) == Flatten([p \in 1..Len(tr) |-> PbsOfKids(tr[p].kids, n)])

\* a piece after the match that loses its first character
text_after_short(field, m) == Slice(field, m.end + 1, Len(field))

\* the three pieces of a field split at a match
text_before(field, m) == Slice(field, 0, m.start)
text_label(field, m) == Slice(field, m.start, m.end)
text_after(field, m) == Slice(field, m.end, Len(field))

\* label.tail of the note of a gloss: ' ' + (note_text or '').strip()
note_tail(note_text) == <<" ">> \o Strip(note_text)

\* add_comment (note_type 'gloss').  current_parent is [par, node]: the block
\* par itself when node = 0, else the styled run node of block par; current
\* is the kid whose tail holds the match, 0 for None.  Yields the new tree,
\* the id of the anchor, the next free id and the ids of the splice.
add_comment(tr, nid, current_parent, label_match, comment_i, label_text, note_text, current) ==
    LET anchor == [Element(nid, "anchor") EXCEPT !.n = comment_i]
        app    == [Element(nid + 1, "app") EXCEPT
                     !.n = comment_i, !.label = label_text,
                     !.note = note_tail(note_text)]
        p      == current_parent.par
    IN  IF current # 0 THEN
            LET field == NodeOf(tr, current).tail
                k     == index(tr, current)
                t1    == WithTail(tr, current, text_before(field, label_match))
                k1    == InsertAt(t1[p].kids, k + 1,
                                  [anchor EXCEPT !.tail = text_label(field, label_match)])
                k2    == InsertAt(k1, k + 2,
                                  [app EXCEPT !.tail = text_after(field, label_match)])
            IN  [tree |-> WithKids(t1, p, k2), anchor |-> nid, next |-> nid + 2,
                 splice |-> [kind |-> "tail", field |-> field, owner |-> current,
                             anchor |-> nid, app |-> nid + 1, before |-> 0, after |-> 0,
                             m |-> label_match]]
        ELSE IF current_parent.node = 0 THEN
            LET field == tr[p].text
                k1    == InsertAt(tr[p].kids, 0,
                                  [anchor EXCEPT !.tail = text_label(field, label_match)])
                k2    == InsertAt(k1, 1,
                                  [app EXCEPT !.tail = text_after(field, label_match)])
            IN  [tree |-> [tr EXCEPT ![p] = [text |-> text_before(field, label_match),
                                            kids |-> k2]],
                 anchor |-> nid, next |-> nid + 2,
                 splice |-> [kind |-> "head", field |-> field, owner |-> p,
                             anchor |-> nid, app |-> nid + 1, before |-> 0, after |-> 0,
                             m |-> label_match]]
        ELSE
            LET hi      == NodeOf(tr, current_parent.node)
                field   == hi.text
                k       == index(tr, hi.id)
                tb      == text_before(field, label_match)
                ta      == text_after(field, label_match)
                before  == IF tb # <<>>
                           THEN <<[Element(nid + 2, hi.tag) EXCEPT !.text = tb]>>
                           ELSE <<>>
                after   == IF ta # <<>>
                           THEN <<[Element(nid + 3, hi.tag) EXCEPT !.text = ta]>>
                           ELSE <<>>
                shrunk  == [hi EXCEPT !.text = text_label(field, label_match)]
                kids    == tr[p].kids
            IN  [tree |-> WithKids(tr, p,
                             SubSeq(kids, 1, k) \o before \o <<anchor, shrunk, app>>
                             \o after \o SubSeq(kids, k + 2, Len(kids))),
                 anchor |-> nid, next |-> nid + 4,
                 splice |-> [kind |-> "run", field |-> field, owner |-> hi.id,
                             anchor |-> nid, app |-> nid + 1,
                             before |-> IF tb # <<>> THEN nid + 2 ELSE 0,
                             after  |-> IF ta # <<>> THEN nid + 3 ELSE 0,
                             m |-> label_match]]

\* default_edition_ids[doc_num]['DJAK03'] of the document (doc_num '01')
default_edition_id == "St"

\* the wit attribute of a reading whose attribution holds no 'tbd' marker
rdg_wit(wit) == IF wit = "" THEN "#" \o default_edition_id ELSE wit

\* the trailing punctuation mark of the matched text that is moved out of
\* the lemma: '' or the last character
moved_punctuation(matched_text, lemma_label) ==
    LET raw_lemma_label == Strip(lemma_label)
        last == matched_text[Len(matched_text)]
    IN  IF matched_text # <<>> /\ last \in Punctuation
           /\ ~(raw_lemma_label # <<>> /\ raw_lemma_label[Len(raw_lemma_label)] = last)
        THEN <<last>>
        ELSE <<>>

\* add_critical for a lemma and readings whose attributions hold no 'tbd'
\* marker.  current_parent is the block; current the kid whose tail holds
\* the match, 0 for None (the match is in the head text of the block).
add_critical(tr, nid, current_parent, lem_match, lem_text, rdg_text, current) ==
    LET field   == IF current # 0 THEN NodeOf(tr, current).tail
                   ELSE tr[current_parent].text
        matched == text_label(field, lem_match)
        moved   == moved_punctuation(matched, lem_text.text)
        app     == [Element(nid, "app") EXCEPT
                      !.lemwit = lem_text.wit,
                      !.lem    = SubSeq(matched, 1, Len(matched) - Len(moved)),
                      !.rdgs   = [i \in 1..Len(rdg_text) |->
                                    [wit  |-> rdg_wit(rdg_text[i].wit),
                                     text |-> rdg_text[i].text]],
                      !.tail   = moved \o text_after(field, lem_match)]
    IN  IF current # 0 THEN
            LET p  == getparent(tr, current)
                t1 == WithTail(tr, current, text_before(field, lem_match))
            IN  [tree |-> WithKids(t1, p, InsertAt(t1[p].kids, index(tr, current) + 1, app)),
                 app |-> nid, next |-> nid + 1,
                 splice |-> [kind |-> "tail", field |-> field, owner |-> current,
                             anchor |-> 0, app |-> nid, before |-> 0, after |-> 0,
                             m |-> lem_match]]
        ELSE
            [tree |-> [tr EXCEPT ![current_parent] =
                          [text |-> text_before(field, lem_match),
                           kids |-> InsertAt(tr[current_parent].kids, 0, app)]],
             app |-> nid, next |-> nid + 1,
             splice |-> [kind |-> "head", field |-> field, owner |-> current_parent,
                         anchor |-> 0, app |-> nid, before |-> 0, after |-> 0,
                             m |-> lem_match]]

\* create_dud_comment: the label and the note text are written as they are
create_dud_comment(comment_i, label_text, note_text) ==
    [anchor |-> comment_i, from |-> comment_i, label |-> label_text, note |-> note_text]

\* create_dud_critical: lem.text is ' ', the readings are written as they are
create_dud_critical(lem_text, rdg_text) ==
    [lemwit |-> lem_text.wit, lem |-> <<" ">>, rdgs |-> rdg_text]

\* ------------------------------------------------- witness attributions
\* the style None of a part of an apparatus entry
None == "None"
Part(style, text) == [style |-> style, text |-> text]

\* the result of a call: a value, or the exception the call raises
Returns(v) == [exc |-> "", none |-> FALSE, val |-> v]
ReturnsNone == [exc |-> "", none |-> TRUE, val |-> <<>>]
Raises(e) == [exc |-> e, none |-> FALSE, val |-> <<>>]

Digits == <<"0", "1", "2", "3", "4", "5", "6", "7", "8", "9">>

\* str.isdigit()
isdigit(text) ==
    text # <<>> /\ \A i \in 1..Len(text) : \E d \in 1..10 : Digits[d] = text[i]

RECURSIVE int(_)
\* int(text) of a text of digits
int(text) ==
    IF text = <<>> THEN 0
    ELSE 10 * int(SubSeq(text, 1, Len(text) - 1))
         + (CHOOSE d \in 0..9 : Digits[d + 1] = text[Len(text)])

\* the index of the first character of text that is in cs, Len(text) + 1 if
\* there is none
FirstIn(text, cs) ==
    IF \E i \in 1..Len(text) : text[i] \in cs
    THEN CHOOSE i \in 1..Len(text) :
             text[i] \in cs /\ \A j \in 1..(i - 1) : text[j] \notin cs
    ELSE Len(text) + 1

RECURSIVE split(_)
\* str.split(): the runs of characters between white space
split(text) ==
    LET t == LStrip(text)
        n == FirstIn(t, WhiteSpace)
    IN  IF t = <<>> THEN <<>>
        ELSE <<SubSeq(t, 1, n - 1)>> \o split(SubSeq(t, n, Len(t)))

RECURSIVE re_split_commas(_, _)
\* a split at the commas only
re_split_commas(cs, text) ==
    LET n == FirstIn(text, {","})
    IN  IF n > Len(text) THEN <<text>>
        ELSE <<SubSeq(text, 1, n - 1)>> \o re_split_commas(cs, SubSeq(text, n + 1, Len(text)))

RECURSIVE re_split_fold(_, _)
\* a split that takes 'A' for 'a'
re_split_fold(cs, text) ==
    LET n == FirstIn(text, cs \cup {"A"})
    IN  IF n > Len(text) THEN <<text>>
        ELSE <<SubSeq(text, 1, n - 1)>> \o re_split_fold(cs, SubSeq(text, n + 1, Len(text)))

RECURSIVE re_split(_, _)
\* re.split('[...]', text) for a class cs of characters
re_split(cs, text) ==
    LET n == FirstIn(text, cs)
    IN  IF n > Len(text) THEN <<text>>
        ELSE <<SubSeq(text, 1, n - 1)>> \o re_split(cs, SubSeq(text, n + 1, Len(text)))

RECURSIVE strip_chars(_, _)
\* str.strip(chars)
strip_chars(text, cs) ==
    IF text # <<>> /\ Head(text) \in cs THEN strip_chars(Tail(text), cs)
    ELSE IF text # <<>> /\ text[Len(text)] \in cs
         THEN strip_chars(SubSeq(text, 1, Len(text) - 1), cs)
         ELSE text

RECURSIVE join(_, _)
\* sep.join(pieces)
join(sep, pieces) ==
    IF pieces = <<>> THEN <<>>
    ELSE IF Len(pieces) = 1 THEN pieces[1]
    ELSE pieces[1] \o sep \o join(sep, Tail(pieces))

\* the documents of the model
DocNums == {"01", "08"}

DJAK03 == <<"D", "J", "A", "K", "0", "3">>

\* edition_ids[doc_num], lines 18-29: siglum -> witness id
edition_ids(doc_num) ==
    IF doc_num = "01"
    THEN (<<"M">> :> <<"M">>) @@ (<<"S", "r">> :> <<"S", "r">>)
         @@ (<<"S", "t">> :> <<"S", "t">>) @@ (<<"W">> :> <<"W">>)
         @@ (DJAK03 :> DJAK03)
    ELSE (<<"A">> :> <<"T", "1", "6", "6", "3">>) @@ (<<"L">> :> <<"T", "1", "6", "3", "3">>)
         @@ (<<"V">> :> <<"W">>) @@ (DJAK03 :> DJAK03)

\* default_edition_ids[doc_num]['DJAK03'], lines 32-43
default_edition_ids(doc_num) ==
    IF doc_num = "01" THEN <<"S", "t">> ELSE <<"T", "1", "6", "6", "3">>

\* '[tbd_{}: {}]'.format(position, wit)
tbd_marker(position, wit) ==
    <<"[", "t", "b", "d", "_", position, ":", " ">> \o wit \o <<"]">>

\* the reference parse_wits makes of one piece of the split attribution
parsed_wit(piece, doc_num, position) ==
    LET wit == strip_chars(Strip(piece), {";"})
    IN  IF wit = <<>> THEN <<>>
        ELSE IF wit \in DOMAIN edition_ids(doc_num)
             THEN <<<<"#">> \o edition_ids(doc_num)[wit]>>
             ELSE <<tbd_marker(position, wit)>>

\* parse_wits: the references, before they are joined with ' '
parsed_wits(wit_str, doc_num, position, add_default) ==
    LET wit_list == re_split({",", "a"}, wit_str)
    IN  (IF add_default THEN <<<<"#">> \o DJAK03>> ELSE <<>>)
        \o Flatten([i \in 1..Len(wit_list) |-> parsed_wit(wit_list[i], doc_num, position)])

parse_wits(wit_str, doc_num, position, add_default) ==
    join(<<" ">>, parsed_wits(wit_str, doc_num, position, add_default))

\* the keys of edition_ids[doc_num] in the order the dictionary holds them
edition_keys(doc_num) ==
    IF doc_num = "01" THEN <<<<"M">>, <<"S", "r">>, <<"S", "t">>, <<"W">>, DJAK03>>
    ELSE <<<<"A">>, <<"L">>, <<"V">>, DJAK03>>

RECURSIVE sorted_by_len(_)
\* sorted(keys, key=len, reverse=True): longest first, keys of one length in
\* the order they had
sorted_by_len(keys) ==
    IF keys = <<>> THEN <<>>
    ELSE LET longest == CHOOSE i \in 1..Len(keys) :
                 /\ \A j \in 1..Len(keys) : Len(keys[j]) <= Len(keys[i])
                 /\ \A j \in 1..(i - 1) : Len(keys[j]) < Len(keys[i])
         IN  <<keys[longest]>>
             \o sorted_by_len(SubSeq(keys, 1, longest - 1)
                              \o SubSeq(keys, longest + 1, Len(keys)))

get_possible_wits(doc_num) == sorted_by_len(edition_keys(doc_num))

\* \b at position i of text: between the characters i - 1 and i, one a word
\* character and the other not (the ends of the text are not)
word_boundary(text, i) ==
    LET before == i > 1 /\ i - 1 <= Len(text) /\ IsWord(text[i - 1])
        after == i >= 1 /\ i <= Len(text) /\ IsWord(text[i])
    IN  before # after

\* text holds the characters of word from position i on
starts_with(text, i, word) ==
    /\ i + Len(word) - 1 <= Len(text)
    /\ \A k \in 1..Len(word) : text[i + k - 1] = word[k]

\* \b(?:alt1|alt2|...)\b at position i: the index of the first alternative
\* that matches there between two word boundaries, 0 if none does
alt_at(text, i, possible_wits) ==
    LET fits(k) == /\ word_boundary(text, i)
                   /\ starts_with(text, i, possible_wits[k])
                   /\ word_boundary(text, i + Len(possible_wits[k]))
    IN  IF \E k \in 1..Len(possible_wits) : fits(k)
        THEN CHOOSE k \in 1..Len(possible_wits) :
                 fits(k) /\ \A j \in 1..(k - 1) : ~fits(j)
        ELSE 0

RECURSIVE wits_end(_, _, _)
\* (?:(?:,| a) \b(?:alts)\b)* from position i on, greedy: the position after
\* the last siglum it takes
wits_end(text, i, possible_wits) ==
    LET after_sep == IF starts_with(text, i, <<",", " ">>) THEN i + 2
                     ELSE IF starts_with(text, i, <<" ", "a", " ">>) THEN i + 3
                     ELSE 0
        k == IF after_sep = 0 THEN 0 ELSE alt_at(text, after_sep, possible_wits)
    IN  IF k = 0 THEN i
        ELSE wits_end(text, after_sep + Len(possible_wits[k]), possible_wits)

\* match_wit_simple, lines 1658-1661: the groups (text before, sigla, text
\* after) of the first place of text where a siglum stands, None if none does
match_wit_simple(text, possible_wits) ==
    LET places == {i \in 1..(Len(text) + 1) : alt_at(text, i, possible_wits) # 0}
    IN  IF places = {} THEN ReturnsNone
        ELSE LET i == CHOOSE p \in places : \A q \in places : p <= q
                 k == alt_at(text, i, possible_wits)
                 j == wits_end(text, i + Len(possible_wits[k]), possible_wits)
             IN  Returns(<<SubSeq(text, 1, i - 1), SubSeq(text, i, j - 1),
                           SubSeq(text, j, Len(text))>>)

\* ------------------------------------------------------- format_critical
\* the position of the first part (None, ']') of parts, 0 if there is none
index_of_bracket(parts) ==
    IF \E i \in 1..Len(parts) : parts[i] = Part(None, <<"]">>)
    THEN CHOOSE i \in 1..Len(parts) :
             /\ parts[i] = Part(None, <<"]">>)
             /\ \A j \in 1..(i - 1) : parts[j] # Part(None, <<"]">>)
    ELSE 0

\* lines 1000-1008 of preformat_critical: the parts are cut at the bracket
cut_at_bracket(parts, split_i) ==
    LET cut    == SubSeq(parts, 2, split_i - 1)
        before == [i \in 1..Len(cut) |-> Part(cut[i].style, Strip(cut[i].text))]
        after  == SelectSeq(SubSeq(parts, split_i + 1, Len(parts)),
                            LAMBDA e : e # Part(None, <<>>))
        n      == Len(after)
        after1 == [after EXCEPT ![1] = Part(after[1].style, LStrip(after[1].text))]
        after2 == [after1 EXCEPT ![n] = Part(after1[n].style, RStrip(after1[n].text))]
    IN  IF after = <<>> THEN Raises("IndexError")
        ELSE Returns([num |-> int(Strip(parts[1].text)), before |-> before,
                      after |-> after2])

\* preformat_critical, lines 978-1008
preformat_critical(critical_element) ==
    LET ce1   == [i \in 1..Len(critical_element) |->
                    IF critical_element[i].text # <<>> /\ critical_element[i].text[1] = "]"
                    THEN Part(None, <<"]">>)
                    ELSE critical_element[i]]
        first == Strip(ce1[1].text)
        words == split(first)
        ce2   == IF isdigit(first) THEN ce1
                 ELSE <<Part(None, words[1]), Part(None, words[2])>> \o Tail(ce1)
        split_i == index_of_bracket(ce2)
    IN  IF ce1 = <<>> THEN Raises("IndexError")
        ELSE IF ~isdigit(first) /\ words = <<>> THEN Raises("IndexError")
        ELSE IF ~isdigit(first) /\ ~isdigit(words[1]) THEN ReturnsNone
        ELSE IF split_i = 0 THEN ReturnsNone
        ELSE IF split_i = Len(ce2) THEN ReturnsNone
        ELSE cut_at_bracket(ce2, split_i)

RECURSIVE sub_space_before(_)
\* re.sub(' ?([.,])', r'\1', text): a space before a full stop or a comma goes
sub_space_before(text) ==
    IF text = <<>> THEN <<>>
    ELSE IF Len(text) >= 2 /\ text[1] = " " /\ text[2] \in {".", ","}
         THEN <<text[2]>> \o sub_space_before(SubSeq(text, 3, Len(text)))
         ELSE <<text[1]>> \o sub_space_before(Tail(text))

RECURSIVE sub_space_after(_)
\* re.sub('([.,]) *', r'\1 ', text): one space after a full stop or a comma
sub_space_after(text) ==
    IF text = <<>> THEN <<>>
    ELSE IF text[1] \in {".", ","}
         THEN <<text[1], " ">> \o sub_space_after(LStrip(Tail(text)))
         ELSE <<text[1]>> \o sub_space_after(Tail(text))

\* re.match('^[.,] ?$', text)
is_punctuation_part(text) ==
    text \in {<<".">>, <<",">>, <<".", " ">>, <<",", " ">>}

RECURSIVE repair_loop(_, _, _, _)
\* the loop of repair_italics_in_critical, lines 1015-1032; i is the position
\* of element in after (the i of the code plus two)
repair_loop(after, i, corrected_after, current) ==
    IF i > Len(after) THEN corrected_after \o <<current>>
    ELSE
      LET element == after[i]
      IN  IF /\ current.style = "italic" /\ element.style = None
             /\ element.text = <<" ">> /\ i - 2 < Len(after) - 1
             /\ after[i].style = "italic"
          THEN repair_loop(after, i + 1, corrected_after,
                           Part("italic", current.text \o <<" ">>))
          ELSE IF element.style = "italic" \/ is_punctuation_part(element.text)
          THEN IF current.style # "italic"
               THEN repair_loop(after, i + 1, corrected_after \o <<current>>, element)
               ELSE repair_loop(after, i + 1, corrected_after,
                        Part("italic",
                             sub_space_before(current.text \o <<" ">> \o element.text)))
          ELSE IF current.style = "italic"
          THEN IF Len(element.text) >= 2 /\ SubSeq(element.text, 1, 2) = <<",", " ">>
               THEN repair_loop(after, i + 1,
                        corrected_after \o <<Part("italic", current.text \o <<",", " ">>)>>,
                        Part(element.style, SubSeq(element.text, 3, Len(element.text))))
               ELSE repair_loop(after, i + 1, corrected_after \o <<current>>, element)
          ELSE repair_loop(after, i + 1, corrected_after,
                           Part(None, current.text \o <<" ">> \o element.text))

\* repair_italics_in_critical, lines 1010-1039
repair_italics_in_critical(after) ==
    IF after = <<>> THEN Raises("IndexError")
    ELSE
      LET looped == repair_loop(after, 2, <<>>, after[1])
          spaced == [i \in 1..Len(looped) |->
                       Part(looped[i].style, sub_space_after(looped[i].text))]
      IN  IF Strip(spaced[Len(spaced)].text) = <<>>
          THEN Returns(SubSeq(spaced, 1, Len(spaced) - 1))
          ELSE Returns(spaced)

\* a lemma or a reading: (witnesses, text)
Attested(wit, text) == [wit |-> wit, text |-> text]

\* extract_witnesses_left, lines 1073-1083
extract_witnesses_left(before, doc_num) ==
    IF Len(before) = 1 /\ before[1].style \in {None, "italic"}
    THEN Returns(<<Attested(<<"#">> \o DJAK03, before[1].text)>>)
    ELSE IF Len(before) < 2 THEN Raises("IndexError")
    ELSE Returns(<<Attested(parse_wits(before[2].text, doc_num, "a", TRUE),
                            before[1].text)>>)

\* ' | '.join([piece[1].strip() for piece in after])
unparsed_text(after) ==
    join(<<" ", "|", " ">>, [i \in 1..Len(after) |-> Strip(after[i].text)])

\* the styles alternate, whatever their numbers
alternates_uncounted(after) ==
    \A i \in 2..Len(after) : after[i].style # after[i - 1].style

\* lines 1096-1107: the styles alternate and both are as many
alternates(after) ==
    /\ \A i \in 2..Len(after) : after[i].style # after[i - 1].style
    /\ Cardinality({i \in 1..Len(after) : after[i].style = None})
         = Cardinality({i \in 1..Len(after) : after[i].style = "italic"})

\* every reading side attributed to the edition itself
attributed_to_edition(after, doc_num) ==
    IF after = <<>> THEN Raises("IndexError")
    ELSE Returns(<<Attested(<<"#">> \o DJAK03, after[1].text)>>)

\* extract_witnesses_right, lines 1085-1123, for parts of style None or italic
extract_witnesses_right(after, doc_num) ==
    IF after = <<>> THEN Raises("IndexError")
    ELSE IF Len(after) = 1 /\ after[1].style = None
    THEN Returns(<<Attested(<<"#">> \o default_edition_ids(doc_num), after[1].text)>>)
    ELSE IF Len(after) = 1
    THEN Returns(<<Attested(<<"t", "b", "d">>, after[1].text)>>)
    ELSE IF ~alternates(after)
    THEN Returns(<<Attested(<<"u", "n", "p", "a", "r", "s", "e", "d">>,
                            unparsed_text(after))>>)
    ELSE IF after[1].style = None
    THEN Returns([j \in 1..(Len(after) \div 2) |->
                    Attested(parse_wits(after[2 * j].text, doc_num, "a", FALSE),
                             after[2 * j - 1].text)])
    ELSE Returns([j \in 1..(Len(after) \div 2) |->
                    Attested(parse_wits(after[2 * j - 1].text, doc_num, "b", FALSE),
                             after[2 * j].text)])

\* labyrint_wits, lines 45-49, and no wits (None)
NoWits == [given |-> FALSE, lem |-> <<>>, rdg |-> <<>>]
labyrint_wits(k) ==
    [given |-> TRUE, lem |-> <<"#">> \o DJAK03,
     rdg |-> IF k = "a" THEN <<"#", "T", "1", "6", "6", "3">>
             ELSE IF k = "b" THEN <<"#", "R", "K", "P">>
             ELSE <<"#", "T", "1", "6", "3", "1">>]

\* lines 1132-1145 of format_critical
format_witnesses(num, before, after, doc_num, wits) ==
    LET left  == extract_witnesses_left(before, doc_num)
        right == extract_witnesses_right(after, doc_num)
    IN  IF ~wits.given THEN
            IF left.exc # "" THEN left
            ELSE IF right.exc # "" THEN right
            ELSE Returns([num |-> num, lem |-> left.val, rdg |-> right.val])
        ELSE IF before = <<>> \/ after = <<>> THEN Raises("IndexError")
        ELSE Returns([num |-> num,
                      lem |-> <<Attested(wits.lem, before[1].text)>>,
                      rdg |-> <<Attested(wits.rdg, after[1].text)>>])

\* format_critical, lines 1125-1145
format_critical(critical_element, doc_num, wits) ==
    LET preformatted == preformat_critical(critical_element)
        before == repair_italics_in_critical(preformatted.val.before)
        after  == repair_italics_in_critical(preformatted.val.after)
    IN  IF preformatted.exc # "" \/ preformatted.none THEN preformatted
        ELSE IF before.exc # "" THEN before
        ELSE IF after.exc # "" THEN after
        ELSE format_witnesses(preformatted.val.num, before.val, after.val, doc_num, wits)

\* ------------------------------------------------------- special merge
\* an entry of critical[page]: (num, lemmas, readings) as format_critical
\* returns it
Entry(num, lem, rdg) == [num |-> num, lem |-> lem, rdg |-> rdg]

\* entry[2][0][0]: the witnesses of the first reading of an entry
entry_wit(entry) == entry.rdg[1].wit

RECURSIVE group_keys(_, _)
\* the keys of the OrderedDict separated, lines 936-940: the witnesses of the
\* entries in the order of their first entry
group_keys(entries, seen) ==
    IF entries = <<>> THEN <<>>
    ELSE IF entry_wit(Head(entries)) \in seen THEN group_keys(Tail(entries), seen)
    ELSE <<entry_wit(Head(entries))>>
         \o group_keys(Tail(entries), seen \cup {entry_wit(Head(entries))})

\* separated = list(separated.values()), line 941: the entries of every key
separated_by_wit(entries) ==
    LET keys == group_keys(entries, {})
    IN  [k \in 1..Len(keys) |-> SelectSeq(entries, LAMBDA e : entry_wit(e) = keys[k])]

\* lines 950-957: merging_candidate goes into merge_candidate, an entry of the
\* same ordinal and lemma: the witnesses of its first reading join those of
\* the first reading of the same text, or all its readings are appended
merge_entry(merge_candidate, merging_candidate) ==
    LET rdgs == merge_candidate.rdg
        same == {j \in 1..Len(rdgs) : rdgs[j].text = merging_candidate.rdg[1].text}
    IN  IF same # {}
        THEN LET j == CHOOSE m \in same : \A n \in same : m <= n
             IN  [merge_candidate EXCEPT
                    !.rdg[j].wit = rdgs[j].wit \o <<" ">> \o merging_candidate.rdg[1].wit]
        ELSE [merge_candidate EXCEPT !.rdg = rdgs \o merging_candidate.rdg]

RECURSIVE merge_group(_, _, _)
\* lines 945-961: the entries of one group are merged into merged, those
\* without an entry of their ordinal and lemma are appended after the loop
merge_group(merged, merging, appending) ==
    IF merging = <<>> THEN merged \o appending
    ELSE
      LET merging_candidate == Head(merging)
          found == {i \in 1..Len(merged) :
                      /\ merged[i].num = merging_candidate.num
                      /\ merged[i].lem[1].text = merging_candidate.lem[1].text}
      IN  IF found = {}
          THEN merge_group(merged, Tail(merging), appending \o <<merging_candidate>>)
          ELSE LET i == CHOOSE m \in found : \A n \in found : m <= n
               IN  merge_group([merged EXCEPT ![i] = merge_entry(merged[i], merging_candidate)],
                               Tail(merging), appending)

RECURSIVE merge_groups(_, _)
merge_groups(merged, groups) ==
    IF groups = <<>> THEN merged
    ELSE merge_groups(merge_group(merged, Head(groups), <<>>), Tail(groups))

\* lines 934-963 for one apparatus page: critical[apparatus_page] = merged
merge_page(entries) ==
    LET separated == separated_by_wit(entries)
    IN  IF separated = <<>> THEN Raises("IndexError")
        ELSE Returns(merge_groups(separated[1], Tail(separated)))

\* --------------------------------------------------------- visible text
\* text of a kid itself: the head text of a run, the lem text of an
\* apparatus app; the note of a gloss app and the readings are not text of
\* the document
NodeText(node) == IF node.tag = "app" THEN node.lem ELSE node.text

RECURSIVE KidsText(_)
KidsText(kids) ==
    IF kids = <<>> THEN <<>>
    ELSE NodeText(Head(kids)) \o Head(kids).tail \o KidsText(Tail(kids))

BlockText(block) == block.text \o KidsText(block.kids)

\* head text, then each child's text and that child's tail, block by block
VisibleText(tr) == Flatten([p \in 1..Len(tr) |-> BlockText(tr[p])])

\* offset in VisibleText of the head text of block p
BlockOffset(tr, p) == Len(VisibleText(SubSeq(tr, 1, p - 1)))

\* offset in VisibleText of the text of kid id, and of its tail
TextOffset(tr, id) ==
    LET p == getparent(tr, id)
    IN  BlockOffset(tr, p) + Len(tr[p].text)
        + Len(KidsText(SubSeq(tr[p].kids, 1, index(tr, id))))

TailOffset(tr, id) == TextOffset(tr, id) + Len(NodeText(NodeOf(tr, id)))

\* position of a kid in document order, as a number: blocks are numbered
\* from 1, the head text of block p is at p * Stride, kid k at p * Stride + k
Stride(tr) == Cardinality(NodeIds(tr)) + 1
BlockPos(tr, p) == p * Stride(tr)
NodePos(tr, id) == getparent(tr, id) * Stride(tr) + index(tr, id) + 1

\* ------------------------------------------------------------------ inputs
pb(n, tail) == [Element(0, "pb") EXCEPT !.n = n, !.tail = tail]
hi(text, tail) == [Element(0, "hi") EXCEPT !.text = text, !.tail = tail]
Block(text, kids) == [text |-> text, kids |-> kids]

\* the blocks documents are made of (kids not yet numbered)
BlockPool ==
    { Block(<<>>, <<pb(1, <<"a", " ", "b", " ", "a">>)>>),
      Block(<<"b", " ", AAcute>>, <<>>),
      Block(<<>>, <<pb(1, <<>>), hi(<<"a", " ", "b">>, <<"a">>)>>),
      Block(<<>>, <<pb(1, <<"b">>), pb(2, <<"b", ",", "a">>)>>),
      Block(<<"c">>, <<hi(<<"b">>, <<"a">>), hi(<<"b">>, <<>>), hi(<<"b">>, <<>>)>>),
      Block(<<"a">>, <<pb(2, <<"b">>)>>) }

RECURSIVE KidCount(_)
KidCount(blocks) ==
    IF blocks = <<>> THEN 0 ELSE Len(Head(blocks).kids) + KidCount(Tail(blocks))

\* the document made of the blocks, kids numbered 1, 2, ... in document order
MkDoc(blocks) ==
    [p \in 1..Len(blocks) |->
        [text |-> blocks[p].text,
         kids |-> [k \in 1..Len(blocks[p].kids) |->
                     [blocks[p].kids[k] EXCEPT
                        !.id = KidCount(SubSeq(blocks, 1, p - 1)) + k]]]]

Docs == {MkDoc(bs) : bs \in UNION {[1..n -> BlockPool] : n \in 1..MaxParas}}

Pages == {1, 2}
\* the number field of a comment: the line number, 0 for a field without digits
Numbers == {1, 2}
Labels == {<<"a">>, <<"b">>}
Notes == {<<"n", " ">>}

RawComments == [page : Pages, number : Numbers, label : Labels, note : Notes]

\* the readings of the apparatus entries of the model: one reading
Readings == {<<[wit |-> "#W", text |-> <<"c">>]>>}
RawEntries == [page : Pages, number : Numbers, label : Labels, rdg : Readings]

RECURSIVE OfPage(_, _, _)
\* the annotations of page pg among raws, each with its 1-based input index
OfPage(raws, pg, i) ==
    IF i > Len(raws) THEN <<>>
    ELSE (IF raws[i].page = pg THEN <<[raw |-> raws[i], i |-> i]>> ELSE <<>>)
         \o OfPage(raws, pg, i + 1)

\* comments[page]: the tuples (number, label_text, note_text, comment_i) that
\* transform_tree queues, comment_i counting the comments of the document
CommentsOf(raws) ==
    [pg \in {raws[i].page : i \in 1..Len(raws)} |->
        LET sel == OfPage(raws, pg, 1)
        IN  [j \in 1..Len(sel) |->
               [number |-> sel[j].raw.number, label |-> sel[j].raw.label,
                note |-> sel[j].raw.note, comment_i |-> sel[j].i]]]

\* critical[page]: the triples (num, lem, rdg) of format_critical; lem is the
\* one (witness, text, 'lem') of extract_witnesses_left
CriticalOf(raws) ==
    [pg \in {raws[i].page : i \in 1..Len(raws)} |->
        LET sel == OfPage(raws, pg, 1)
        IN  [j \in 1..Len(sel) |->
               [number |-> sel[j].raw.number,
                lem |-> [wit |-> "#DJAK03", text |-> sel[j].raw.label],
                rdg |-> sel[j].raw.rdg]]]

SeqsUpTo(S, n) == UNION {[1..m -> S] : m \in 0..n}

\* sum(map(len, d.values()))
RECURSIVE TotalLen(_, _)
TotalLen(d, keys) ==
    IF keys = {} THEN 0
    ELSE LET k == CHOOSE x \in keys : TRUE
         IN  Len(d[k]) + TotalLen(d, keys \ {k})

RECURSIVE SortedSeq(_)
\* sorted(set) of page numbers
SortedSeq(S) ==
    IF S = {} THEN <<>>
    ELSE LET m == CHOOSE x \in S : \A y \in S : x <= y
         IN  <<m>> \o SortedSeq(S \ {m})

\* the page numbers add_edition_pb found: those of the pb kids of the tree
PbNumbers(tr) ==
    UNION {{tr[p].kids[k].n : k \in {j \in 1..Len(tr[p].kids) : tr[p].kids[j].tag = "pb"}}
           : p \in 1..Len(tr)}

\* get_sort_key(comment_tuple)
get_sort_key(c) ==
    [line_num |-> IF c.number = 0 THEN NoLineNum ELSE c.number,
     length_score |-> 0 - Len(c.label),
     original_index |-> c.comment_i]

\* key a sorts strictly before key b (tuple comparison)
KeyLess(a, b) ==
    \/ a.line_num < b.line_num
    \/ a.line_num = b.line_num /\ a.length_score < b.length_score
    \/ a.line_num = b.line_num /\ a.length_score = b.length_score
       /\ a.original_index < b.original_index

RECURSIVE InsertSorted(_, _)
InsertSorted(sorted, c) ==
    IF sorted = <<>> THEN <<c>>
    ELSE IF KeyLess(get_sort_key(c), get_sort_key(Head(sorted)))
         THEN <<c>> \o sorted
         ELSE <<Head(sorted)>> \o InsertSorted(Tail(sorted), c)

RECURSIVE sorted_by_key(_)
\* sorted(comments[pe_number], key=get_sort_key): a stable sort
sorted_by_key(cs) ==
    IF cs = <<>> THEN <<>>
    ELSE InsertSorted(sorted_by_key(SubSeq(cs, 1, Len(cs) - 1)), cs[Len(cs)])

\* ------------------------------------------------------------------- state
VARIABLES
    tree,                       \* tei_tree: the blocks of div[1]
    nextId,                     \* the id the next created node gets
    args,                       \* args.comment_file, args.apparatus_file (set or '')
    comments,                   \* comments: page -> queued comment tuples
    critical,                   \* critical: page -> queued apparatus entries
    edition_page_break_numbers, \* the page numbers add_edition_pb returned
    pc,                         \* position of main / add_comments / add_critical_apparatus
    pages,                      \* active_page_break_numbers not yet iterated
    pe_number,                  \* the page being processed
    queue,                      \* the annotations of the page not yet iterated
    ann,                        \* the annotation being processed
    start,                      \* the pb of the page (pagebreaks[0])
    current,                    \* the cursor: a kid, 0 for None
    current_p,                  \* add_comments: the cursor's block, 0 for None
    created_anchors,            \* add_comments: anchor id -> label
    comment_failure_count,
    comment_i,
    comment_file,               \* the lines written to args.comment_file
    start_current_parent,       \* add_critical_apparatus
    current_parent,             \* add_critical_apparatus: 0 for None
    look_in_tail,
    saved_current,
    prev_number,                \* 0 for None
    search,
    critical_failure_count,
    failed,                     \* failed: page -> entries not placed
    apparatus_file,             \* the lines written to args.apparatus_file
    report,                     \* the two 'Failed to place N ... out of M' lines
    tree0,                      \* history: the tree before the passes
    mark,                       \* history: the tree when the annotation was taken
    placed,                     \* history: the placements, in order
    steps,                      \* history: loop iterations of the current search
    probes,                     \* history: the fields the last iteration tested
    splice,                     \* history: the splice of the last step, if any
    event,                      \* history: what the last step did
    body,                       \* transform_tree: the body elements not yet read
    flags,                      \* args.no_critical, special_critical, witnesses_file
    run_pc,                     \* position of transform_tree / main
    reading_comments,
    reading_critical,
    div,                        \* whether div is an element (not None)
    comment_page,               \* 0 for None
    bound,                      \* the local names of transform_tree that are bound
    read_comments,              \* comments: page -> number of comments read
    read_critical,              \* critical: page -> number of entries read
    error,                      \* the uncaught exception, '' for none
    fn,                         \* the function applied on its own
    fn_in,                      \* its arguments
    fn_out,                     \* its result
    fn_pc                       \* 'call' before, 'return' after the call

passVars == <<tree, nextId, args, comments, critical, edition_page_break_numbers, pc,
              pages, pe_number, queue, ann, start, current, current_p, created_anchors,
              comment_failure_count, comment_i, comment_file, start_current_parent,
              current_parent, look_in_tail, saved_current, prev_number, search,
              critical_failure_count, failed, apparatus_file, report, tree0, mark,
              placed, steps, probes, splice, event>>

commentVars == <<current_p, created_anchors, comment_failure_count, comment_i, comment_file>>
criticalVars == <<start_current_parent, current_parent, look_in_tail, saved_current,
                  prev_number, search, critical_failure_count, failed, apparatus_file>>
runVars == <<body, flags, run_pc, reading_comments, reading_critical, div, comment_page,
             bound, read_comments, read_critical, error>>
fnVars == <<fn, fn_in, fn_out, fn_pc>>
inputVars == <<args, comments, critical, edition_page_break_numbers, tree0, runVars,
               fnVars>>

NoSplice == [kind |-> "none", field |-> <<>>, owner |-> 0, anchor |-> 0, app |-> 0,
             before |-> 0, after |-> 0, m |-> NoMatch]
NoAnn == [number |-> 0]
EmptyDict == [x \in {} |-> <<>>]

\* the runs of the model ask for both failure files or for none
ArgSets == {[comment_file |-> b, apparatus_file |-> b] : b \in BOOLEAN}

\* the state in which main calls add_comments on a document, its annotations
\* and the options of the run
PassesAt(doc, cs, ks, a) ==
    /\ tree = doc
    /\ tree0 = doc
    /\ mark = doc
    /\ nextId = Cardinality(NodeIds(doc)) + 1
    /\ args = a
    /\ comments = CommentsOf(cs)
    /\ critical = CriticalOf(ks)
    /\ edition_page_break_numbers = PbNumbers(doc)
    /\ pc = "add_comments"
    /\ pages = <<>>
    /\ pe_number = 0
    /\ queue = <<>>
    /\ ann = NoAnn
    /\ start = 0
    /\ current = 0
    /\ current_p = 0
    /\ created_anchors = EmptyDict
    /\ comment_failure_count = 0
    /\ comment_i = 0
    /\ comment_file = <<>>
    /\ start_current_parent = 0
    /\ current_parent = 0
    /\ look_in_tail = TRUE
    /\ saved_current = 0
    /\ prev_number = 0
    /\ search = FALSE
    /\ critical_failure_count = 0
    /\ failed = EmptyDict
    /\ apparatus_file = <<>>
    /\ report = <<>>
    /\ placed = <<>>
    /\ steps = 0
    /\ probes = {}
    /\ splice = NoSplice
    /\ event = "init"

InitPasses ==
    \E doc \in Docs, cs \in SeqsUpTo(RawComments, MaxAnnots), a \in ArgSets :
      \E ks \in SeqsUpTo(RawEntries, MaxAnnots - Len(cs)) : PassesAt(doc, cs, ks, a)

\* ------------------------------------------------------------ add_comments
\* lines 1276-1278
AddCommentsStart ==
    /\ pc = "add_comments"
    /\ comment_failure_count' = 0
    /\ pages' = SortedSeq(edition_page_break_numbers \cap DOMAIN comments)
    /\ comment_i' = 0
    /\ pc' = "c_page"
    /\ probes' = {} /\ splice' = NoSplice /\ event' = "start"
    /\ UNCHANGED <<tree, nextId, pe_number, queue, ann, start, current, current_p,
                   created_anchors, comment_file, report, mark, placed, steps>>
    /\ UNCHANGED criticalVars /\ UNCHANGED inputVars

\* lines 1280-1302: the next page, its pb and its comments in sorted order
CommentsPage ==
    /\ pc = "c_page"
    /\ pages # <<>>
    /\ pe_number' = Head(pages)
    /\ pages' = Tail(pages)
    /\ created_anchors' = EmptyDict
    /\ LET pagebreaks == xpath_pb(tree, Head(pages))
       IN  IF pagebreaks = <<>>
           THEN /\ pc' = "c_page"
                /\ UNCHANGED <<start, queue>>
           ELSE /\ pc' = "c_next"
                /\ start' = pagebreaks[1]
                /\ queue' = sorted_by_key(comments[Head(pages)])
    /\ probes' = {} /\ splice' = NoSplice /\ event' = "page"
    /\ UNCHANGED <<tree, nextId, ann, current, current_p, comment_failure_count,
                   comment_i, comment_file, report, mark, placed, steps>>
    /\ UNCHANGED criticalVars /\ UNCHANGED inputVars

\* lines 1304-1309: the next comment of the page; the cursor is the page's pb
CommentNext ==
    /\ pc = "c_next"
    /\ IF queue = <<>>
       THEN /\ pc' = "c_page"
            /\ UNCHANGED <<queue, ann, comment_i, current, current_p, mark, steps>>
       ELSE /\ pc' = "c_search"
            /\ ann' = Head(queue)
            /\ queue' = Tail(queue)
            /\ comment_i' = Head(queue).comment_i
            /\ current' = start
            /\ current_p' = getparent(tree, start)
            /\ mark' = tree
            /\ steps' = 0
    /\ probes' = {} /\ splice' = NoSplice /\ event' = "next"
    /\ UNCHANGED <<tree, nextId, pages, pe_number, start, created_anchors,
                   comment_failure_count, comment_file, report, placed>>
    /\ UNCHANGED criticalVars /\ UNCHANGED inputVars

\* a field the search tests: the head text of block par (node = 0), or the
\* text or the tail of kid node
Probe(par, node, field) == [par |-> par, node |-> node, field |-> field]

\* the duplicate test of lines 1333-1335 and 1352-1354
is_duplicate(anchors, cur, label, m) ==
    cur \in DOMAIN anchors /\ anchors[cur] = label /\ m.start = 0

\* a cursor that stays where it is
advance_stays(tr, cur, cur_p) == [current |-> cur, current_p |-> cur_p]

\* a cursor that walks on at a pb
advance_past_pb(tr, cur, cur_p) ==
    IF getnext(tr, cur) = 0 THEN [current |-> 0, current_p |-> getnext_p(tr, cur_p)]
    ELSE [current |-> getnext(tr, cur), current_p |-> cur_p]

\* the cursor after 'Advance cursor' (lines 1370-1376): [current, current_p]
advance(tr, cur, cur_p) ==
    LET nxt == getnext(tr, cur)
    IN  IF nxt = 0 THEN [current |-> 0, current_p |-> getnext_p(tr, cur_p)]
        ELSE IF NodeOf(tr, nxt).tag = "pb" THEN [current |-> nxt, current_p |-> 0]
        ELSE [current |-> nxt, current_p |-> cur_p]

\* the cursor after a block without a match (lines 1388-1393)
descend(tr, cur_p) ==
    IF Len(tr[cur_p].kids) > 0
    THEN [current |-> tr[cur_p].kids[1].id,
          current_p |-> IF tr[cur_p].kids[1].tag = "pb" THEN 0 ELSE cur_p]
    ELSE [current |-> 0, current_p |-> getnext_p(tr, cur_p)]

\* the outcome of an iteration that calls add_comment: r is what add_comment
\* yields, off the offset of the match in the visible text, tested the fields
\* the iteration tested
placed_at(r, off, tested, cur, cur_p) ==
    CHOOSE it \in {[found |-> TRUE, tree |-> x.tree, next |-> x.next,
                    anchor |-> x.anchor, splice |-> x.splice, off |-> off,
                    probes |-> tested, current |-> cur, current_p |-> cur_p] :
                   x \in {r}} : TRUE

\* the outcome of an iteration without a match: the cursor moves to c
moved_to(tr, nid, c, tested) ==
    [found |-> FALSE, tree |-> tr, next |-> nid, anchor |-> 0,
     splice |-> NoSplice, off |-> 0, probes |-> tested,
     current |-> c.current, current_p |-> c.current_p]

\* the matches of the four checks of an iteration (lines 1314-1315,
\* 1328-1329, 1348, 1379); a check that is not made yields NoMatch
label_matches(tr, c, cur, cur_p) ==
    CHOOSE f \in
      {LET check1 == cur # 0 /\ Len(tr[cur_p].kids) > 0 /\ cur = tr[cur_p].kids[1].id
                     /\ tr[cur_p].text # <<>>
           check2 == cur # 0 /\ NodeOf(tr, cur).tag \in ENCLOSING_TAGS
       IN  [check1 |-> check1,
            check2 |-> check2,
            m1 |-> IF check1 THEN regex_search(label_regex, head_text) ELSE NoMatch,
            m2 |-> IF check2
                   THEN regex_search(label_regex,
                                     strip_accents(safe(NodeOf(tr, cur).text)))
                   ELSE NoMatch,
            m3 |-> IF cur # 0
                   THEN regex_search(label_regex,
                                     strip_accents(safe(NodeOf(tr, cur).tail)))
                   ELSE NoMatch,
            m4 |-> IF cur = 0 THEN regex_search(label_regex, head_text) ELSE NoMatch] :
       label_regex \in {create_label_regex(c.label)},
       head_text \in {strip_accents(safe(tr[cur_p].text))}} : TRUE

\* the outcome of an iteration whose checks matched as f says
iteration_outcome(tr, nid, anchors, c, cur, cur_p, f) ==
    LET here   == [par |-> cur_p, node |-> 0]
        head   == Probe(cur_p, 0, "text")
        tested == (IF f.check1 THEN {head} ELSE {})
                  \cup (IF f.check2 THEN {Probe(cur_p, cur, "text")} ELSE {})
    IN  IF f.m1.found THEN
            placed_at(add_comment(tr, nid, here, f.m1, c.comment_i, c.label, c.note, 0),
                      BlockOffset(tr, cur_p) + f.m1.start, {head}, cur, cur_p)
        ELSE IF cur # 0 THEN
            IF f.m2.found /\ ~is_duplicate(anchors, cur, c.label, f.m2) THEN
                placed_at(add_comment(tr, nid, [par |-> cur_p, node |-> cur], f.m2,
                                      c.comment_i, c.label, c.note, 0),
                          TextOffset(tr, cur) + f.m2.start, tested, cur, cur_p)
            ELSE IF f.m3.found /\ ~is_duplicate(anchors, cur, c.label, f.m3) THEN
                placed_at(add_comment(tr, nid, here, f.m3, c.comment_i, c.label,
                                      c.note, cur),
                          TailOffset(tr, cur) + f.m3.start,
                          tested \cup {Probe(cur_p, cur, "tail")}, cur, cur_p)
            ELSE
                moved_to(tr, nid, advance(tr, cur, cur_p),
                         tested \cup {Probe(cur_p, cur, "tail")})
        ELSE IF f.m4.found THEN
            placed_at(add_comment(tr, nid, here, f.m4, c.comment_i, c.label, c.note, 0),
                      BlockOffset(tr, cur_p) + f.m4.start, {head}, cur, cur_p)
        ELSE moved_to(tr, nid, descend(tr, cur_p), {head})

\* one iteration of the search loop, lines 1311-1393, for comment c with
\* the cursor at kid cur (0 for None) of block cur_p
search_iteration(tr, nid, anchors, c, cur, cur_p) ==
    CHOOSE it \in {iteration_outcome(tr, nid, anchors, c, cur, cur_p, f) :
                     f \in {label_matches(tr, c, cur, cur_p)}} : TRUE

\* one iteration of the while loop of add_comments; a placement ends the loop
CommentSearch ==
    /\ pc = "c_search"
    /\ current_p # 0
    /\ \E it \in {search_iteration(tree, nextId, created_anchors, ann, current, current_p)} :
           /\ tree' = it.tree
           /\ nextId' = it.next
           /\ current' = it.current
           /\ current_p' = it.current_p
           /\ created_anchors' =
                IF it.found
                THEN [x \in DOMAIN created_anchors \cup {it.anchor} |->
                        IF x = it.anchor THEN ann.label ELSE created_anchors[x]]
                ELSE created_anchors
           /\ placed' =
                IF it.found
                THEN Append(placed, [kind |-> "comment", page |-> pe_number,
                                     number |-> ann.number, label |-> ann.label,
                                     i |-> ann.comment_i, node |-> it.anchor,
                                     app |-> it.splice.app, off |-> it.off,
                                     note |-> ann.note, rdg |-> <<>>])
                ELSE placed
           /\ splice' = it.splice
           /\ probes' = it.probes
           /\ event' = IF it.found THEN "placed" ELSE "moved"
           /\ pc' = IF it.found THEN "c_next" ELSE pc
    /\ steps' = Min(steps + 1, MaxSteps)
    /\ UNCHANGED <<pages, pe_number, queue, ann, start, comment_failure_count, comment_i,
                   comment_file, report, mark>>
    /\ UNCHANGED criticalVars /\ UNCHANGED inputVars

\* lines 1395-1401: the loop ended without a placement
CommentNotFound ==
    /\ pc = "c_search"
    /\ current_p = 0
    /\ comment_failure_count' = comment_failure_count + 1
    /\ comment_file' =
         IF args.comment_file
         THEN Append(comment_file,
                     [page |-> pe_number,
                      dud |-> create_dud_comment(comment_i, ann.label, ann.note)])
         ELSE comment_file
    /\ pc' = "c_next"
    /\ probes' = {} /\ splice' = NoSplice /\ event' = "failed"
    /\ UNCHANGED <<tree, nextId, pages, pe_number, queue, ann, start, current, current_p,
                   created_anchors, comment_i, report, mark, placed, steps>>
    /\ UNCHANGED criticalVars /\ UNCHANGED inputVars

\* lines 1403-1409: the summary line; main goes on (line 228)
AddCommentsReturn ==
    /\ pc = "c_page"
    /\ pages = <<>>
    /\ report' = Append(report, [kind |-> "comment", failed |-> comment_failure_count,
                                 total |-> TotalLen(comments, DOMAIN comments)])
    /\ pc' = "add_critical"
    /\ probes' = {} /\ splice' = NoSplice /\ event' = "return"
    /\ UNCHANGED <<tree, nextId, pages, pe_number, queue, ann, start, current, current_p,
                   created_anchors, comment_failure_count, comment_i, comment_file,
                   mark, placed, steps>>
    /\ UNCHANGED criticalVars /\ UNCHANGED inputVars

\* -------------------------------------------------- add_critical_apparatus
\* main, line 228, and lines 1543-1546
AddCriticalApparatusStart ==
    /\ pc = "add_critical"
    /\ IF DOMAIN critical = {}
       THEN /\ pc' = "done"
            /\ UNCHANGED <<pages, critical_failure_count, failed>>
       ELSE /\ pc' = "k_page"
            /\ critical_failure_count' = 0
            /\ failed' = EmptyDict
            /\ pages' = SortedSeq(edition_page_break_numbers \cap DOMAIN critical)
    /\ probes' = {} /\ splice' = NoSplice /\ event' = "start"
    /\ UNCHANGED <<tree, nextId, pe_number, queue, ann, start, current, report, mark,
                   placed, steps, start_current_parent, current_parent, look_in_tail,
                   saved_current, prev_number, search, apparatus_file>>
    /\ UNCHANGED commentVars /\ UNCHANGED inputVars

\* lines 1547-1562: the next page; the cursor is the page's pb
CriticalPage ==
    /\ pc = "k_page"
    /\ pages # <<>>
    /\ pe_number' = Head(pages)
    /\ pages' = Tail(pages)
    /\ LET page_pb == xpath_pb(tree, Head(pages))[1]
       IN  /\ current' = page_pb
           /\ start' = page_pb
           /\ start_current_parent' = getparent(tree, page_pb)
           /\ saved_current' = page_pb
    /\ look_in_tail' = TRUE
    /\ prev_number' = 0
    /\ queue' = critical[Head(pages)]
    /\ pc' = "k_next"
    /\ probes' = {} /\ splice' = NoSplice /\ event' = "page"
    /\ UNCHANGED <<tree, nextId, ann, report, mark, placed, steps, current_parent, search,
                   critical_failure_count, failed, apparatus_file>>
    /\ UNCHANGED commentVars /\ UNCHANGED inputVars

\* lines 1564-1573: the next entry of the page; back to the page's pb when
\* the ordinal drops
CriticalNext ==
    /\ pc = "k_next"
    /\ IF queue = <<>>
       THEN /\ pc' = "k_page"
            /\ UNCHANGED <<queue, ann, current, saved_current, start_current_parent,
                           look_in_tail, prev_number, current_parent, search, mark, steps>>
       ELSE LET entry == Head(queue)
                drop  == prev_number # 0 /\ entry.number < prev_number
                page_pb == xpath_pb(tree, pe_number)[1]
                scp   == IF drop THEN getparent(tree, page_pb) ELSE start_current_parent
            IN  /\ pc' = "k_search"
                /\ ann' = entry
                /\ queue' = Tail(queue)
                /\ current' = IF drop THEN page_pb ELSE current
                /\ saved_current' = IF drop THEN page_pb ELSE saved_current
                /\ start_current_parent' = scp
                /\ look_in_tail' = IF drop THEN TRUE ELSE look_in_tail
                /\ prev_number' = entry.number
                /\ current_parent' = scp
                /\ search' = TRUE
                /\ mark' = tree
                /\ steps' = 0
    /\ probes' = {} /\ splice' = NoSplice /\ event' = "next"
    /\ UNCHANGED <<tree, nextId, pages, pe_number, start, report, placed,
                   critical_failure_count, failed, apparatus_file>>
    /\ UNCHANGED commentVars /\ UNCHANGED inputVars

\* the outcome of an iteration of the loop of add_critical_apparatus that
\* calls add_critical
critical_at(r, off, tested, cur_parent, lit, scp) ==
    CHOOSE it \in {[found |-> TRUE, tree |-> x.tree, next |-> x.next, app |-> x.app,
                    splice |-> x.splice, off |-> off, probes |-> tested,
                    current |-> x.app, current_parent |-> cur_parent,
                    look_in_tail |-> lit, search |-> TRUE,
                    start_current_parent |-> scp] :
                   x \in {r}} : TRUE

\* the outcome of an iteration without a match
critical_moved(tr, nid, tested, cur, cur_parent, lit, srch, scp) ==
    [found |-> FALSE, tree |-> tr, next |-> nid, app |-> 0,
     splice |-> NoSplice, off |-> 0, probes |-> tested,
     current |-> cur, current_parent |-> cur_parent, look_in_tail |-> lit,
     search |-> srch, start_current_parent |-> scp]

\* the outcome of an iteration whose test matched as lem_match says
critical_outcome(tr, nid, e, cur, cur_parent, lit, scp, lem_match) ==
    IF lit THEN
        LET nxt == getnext(tr, cur)
            tested == {Probe(getparent(tr, cur), cur, "tail")}
        IN  IF lem_match.found
            THEN critical_at(add_critical(tr, nid, cur_parent, lem_match, e.lem,
                                          e.rdg, cur),
                             TailOffset(tr, cur) + lem_match.start, tested,
                             cur_parent, lit, scp)
            ELSE IF nxt = 0
            THEN critical_moved(tr, nid, tested, nxt, getnext_p(tr, cur_parent),
                                FALSE, TRUE, scp)
            ELSE critical_moved(tr, nid, tested, nxt, cur_parent, lit,
                                NodeOf(tr, nxt).tag # "pb", scp)
    ELSE
        LET block == tr[cur_parent]
            tested == {Probe(cur_parent, 0, "text")}
        IN  IF lem_match.found
            THEN critical_at(add_critical(tr, nid, cur_parent, lem_match, e.lem,
                                          e.rdg, 0),
                             BlockOffset(tr, cur_parent) + lem_match.start, tested,
                             cur_parent, lit, cur_parent)
            ELSE IF Len(block.kids) > 0
            THEN critical_moved(tr, nid, tested, block.kids[1].id, cur_parent, TRUE,
                                block.kids[1].tag # "pb", scp)
            ELSE critical_moved(tr, nid, tested, cur, getnext_p(tr, cur_parent),
                                lit, TRUE, scp)

\* one iteration of the search loop, lines 1576-1616, for entry e: the
\* tail of the cursor is tested (line 1579), or the head text of the block
\* (line 1595)
critical_iteration(tr, nid, e, cur, cur_parent, lit, scp) ==
    CHOOSE it \in {critical_outcome(tr, nid, e, cur, cur_parent, lit, scp, lem_match) :
                     lem_match \in {regex_search(create_label_regex(e.lem.text),
                                      strip_accents(safe(IF lit THEN NodeOf(tr, cur).tail
                                                         ELSE tr[cur_parent].text)))}}
        : TRUE

\* one iteration of the while loop of add_critical_apparatus; a placement
\* ends the loop
CriticalSearch ==
    /\ pc = "k_search"
    /\ search /\ current_parent # 0
    /\ \E it \in {critical_iteration(tree, nextId, ann, current, current_parent,
                                        look_in_tail, start_current_parent)} :
           /\ tree' = it.tree
           /\ nextId' = it.next
           /\ current' = it.current
           /\ current_parent' = it.current_parent
           /\ look_in_tail' = it.look_in_tail
           /\ search' = it.search
           /\ start_current_parent' = it.start_current_parent
           /\ saved_current' = IF it.found THEN it.app ELSE saved_current
           /\ placed' =
                IF it.found
                THEN Append(placed, [kind |-> "critical", page |-> pe_number,
                                     number |-> ann.number, label |-> ann.lem.text,
                                     i |-> Len(critical[pe_number]) - Len(queue),
                                     node |-> it.app, app |-> it.app, off |-> it.off,
                                     note |-> <<>>, rdg |-> ann.rdg])
                ELSE placed
           /\ splice' = it.splice
           /\ probes' = it.probes
           /\ event' = IF it.found THEN "placed" ELSE "moved"
           /\ pc' = IF it.found THEN "k_next" ELSE pc
    /\ steps' = Min(steps + 1, MaxSteps)
    /\ UNCHANGED <<pages, pe_number, queue, ann, start, report, mark, prev_number,
                   critical_failure_count, failed, apparatus_file>>
    /\ UNCHANGED commentVars /\ UNCHANGED inputVars

\* lines 1618-1634: the loop ended without a placement
CriticalNotFound ==
    /\ pc = "k_search"
    /\ ~(search /\ current_parent # 0)
    /\ current' = saved_current
    /\ current_parent' = getparent(tree, saved_current)
    /\ failed' = [x \in DOMAIN failed \cup {pe_number} |->
                    Append(IF x \in DOMAIN failed THEN failed[x] ELSE <<>>,
                           [number |-> ann.number, lem |-> ann.lem, rdg |-> ann.rdg])]
    /\ critical_failure_count' = critical_failure_count + 1
    /\ apparatus_file' =
         IF args.apparatus_file
         THEN Append(apparatus_file,
                     [page |-> pe_number, dud |-> create_dud_critical(ann.lem, ann.rdg)])
         ELSE apparatus_file
    /\ pc' = "k_next"
    /\ probes' = {} /\ splice' = NoSplice /\ event' = "failed"
    /\ UNCHANGED <<tree, nextId, pages, pe_number, queue, ann, start, report, mark, placed,
                   steps, start_current_parent, look_in_tail, saved_current, prev_number,
                   search>>
    /\ UNCHANGED commentVars /\ UNCHANGED inputVars

\* lines 1636-1642: the summary line
AddCriticalApparatusReturn ==
    /\ pc = "k_page"
    /\ pages = <<>>
    /\ report' = Append(report, [kind |-> "critical", failed |-> critical_failure_count,
                                 total |-> TotalLen(critical, DOMAIN critical)])
    /\ pc' = "done"
    /\ probes' = {} /\ splice' = NoSplice /\ event' = "return"
    /\ UNCHANGED <<tree, nextId, pages, pe_number, queue, ann, start, current, mark,
                   placed, steps>>
    /\ UNCHANGED criticalVars /\ UNCHANGED commentVars /\ UNCHANGED inputVars

NextPasses ==
    \/ AddCommentsStart
    \/ CommentsPage
    \/ CommentNext
    \/ CommentSearch
    \/ CommentNotFound
    \/ AddCommentsReturn
    \/ AddCriticalApparatusStart
    \/ CriticalPage
    \/ CriticalNext
    \/ CriticalSearch
    \/ CriticalNotFound
    \/ AddCriticalApparatusReturn

\* ---------------------------------------------------------- transform_tree
\* The body elements transform_tree reads, by what they hold: the header
\* markers <DOC_SHORT_TITLE> and <DOC_DATE>, <TEXT_START> (after a page
\* marker), the heading of the comments (KOMENTAR), the page marker of the
\* comments <PEko_1>, the heading APPARATUS, the page marker of the apparatus
\* <PEka_1>, and a paragraph "P" of text: a comment "n label note" or an
\* entry "- n lemma ] reading".
HeaderKinds == {"DOC_SHORT_TITLE", "DOC_DATE"}
BodyKinds == {"TEXT_START", "COMMENTARY", "PEko", "APPARATUS", "PEka", "P"}

\* the header markers of a document, in the order of the template
HeaderSeq(hs) ==
    (IF "DOC_SHORT_TITLE" \in hs THEN <<"DOC_SHORT_TITLE">> ELSE <<>>)
    \o (IF "DOC_DATE" \in hs THEN <<"DOC_DATE">> ELSE <<>>)

FlagSets == [no_critical : BOOLEAN, special_critical : BOOLEAN, witnesses_file : BOOLEAN]

\* dict d with d[k] = v
Put(d, k, v) == [x \in DOMAIN d \cup {k} |-> IF x = k THEN v ELSE d[x]]

\* lines 415-435: the locals transform_tree binds before the loop
InitTransform ==
    \E hs \in SUBSET HeaderKinds, es \in SeqsUpTo(BodyKinds, MaxElems), f \in FlagSets :
        /\ body = HeaderSeq(hs) \o es
        /\ flags = f
        /\ run_pc = "transform_tree"
        /\ reading_comments = FALSE
        /\ reading_critical = FALSE
        /\ div = FALSE
        /\ comment_page = 0
        /\ bound = {}
        /\ read_comments = EmptyDict
        /\ read_critical = EmptyDict
        /\ error = ""

\* the state of transform_tree and main while the passes run: main is at
\* line 222
RunAtPasses ==
    /\ body = <<>>
    /\ flags = [no_critical |-> FALSE, special_critical |-> FALSE, witnesses_file |-> FALSE]
    /\ run_pc = "passes"
    /\ reading_comments = FALSE
    /\ reading_critical = FALSE
    /\ div = TRUE
    /\ comment_page = 0
    /\ bound = {}
    /\ read_comments = EmptyDict
    /\ read_critical = EmptyDict
    /\ error = ""

\* the state of the passes while transform_tree runs: nothing is built yet
PassesNotStarted ==
    /\ tree = <<>> /\ tree0 = <<>> /\ mark = <<>>
    /\ nextId = 1
    /\ args = [comment_file |-> FALSE, apparatus_file |-> FALSE]
    /\ comments = EmptyDict /\ critical = EmptyDict
    /\ edition_page_break_numbers = {}
    /\ pc = "transform_tree"
    /\ pages = <<>> /\ pe_number = 0 /\ queue = <<>> /\ ann = NoAnn
    /\ start = 0 /\ current = 0 /\ current_p = 0
    /\ created_anchors = EmptyDict
    /\ comment_failure_count = 0 /\ comment_i = 0 /\ comment_file = <<>>
    /\ start_current_parent = 0 /\ current_parent = 0
    /\ look_in_tail = TRUE /\ saved_current = 0 /\ prev_number = 0
    /\ search = FALSE
    /\ critical_failure_count = 0 /\ failed = EmptyDict /\ apparatus_file = <<>>
    /\ report = <<>> /\ placed = <<>> /\ steps = 0 /\ probes = {}
    /\ splice = NoSplice /\ event = "init"

\* the step ends with an uncaught exception
Raise(exc) ==
    /\ run_pc' = "error"
    /\ error' = exc
    /\ UNCHANGED <<body, flags, reading_comments, reading_critical, div, comment_page,
                   bound, read_comments, read_critical>>

\* the names the return statements of lines 543 and 970 read
ReturnNames == {"pb_po_ed", "anchor_id_template", "app_id_template"}

\* lines 455-472: a header marker binds the names that depend on it
ReadHeader ==
    /\ run_pc = "transform_tree"
    /\ body # <<>>
    /\ Head(body) \in HeaderKinds
    /\ body' = Tail(body)
    /\ bound' = bound \cup (IF Head(body) = "DOC_SHORT_TITLE"
                            THEN {"anchor_id_template", "app_id_template"}
                            ELSE {"pb_po_ed"})
    /\ UNCHANGED <<flags, run_pc, reading_comments, reading_critical, div, comment_page,
                   read_comments, read_critical, error>>
    /\ UNCHANGED passVars /\ UNCHANGED fnVars

\* lines 537-759: a paragraph read while reading_comments
ReadComments ==
    /\ run_pc = "transform_tree"
    /\ body # <<>>
    /\ Head(body) \notin HeaderKinds
    /\ reading_comments
    /\ IF Head(body) = "APPARATUS" /\ flags.no_critical THEN
           IF ReturnNames \subseteq bound
           THEN /\ run_pc' = "returned"
                /\ UNCHANGED <<body, flags, reading_comments, reading_critical, div,
                               comment_page, bound, read_comments, read_critical, error>>
           ELSE Raise("UnboundLocalError")
       ELSE IF Head(body) = "APPARATUS" THEN
           /\ body' = Tail(body)
           /\ reading_comments' = FALSE
           /\ reading_critical' = TRUE
           /\ bound' = bound \cup {"witnesses_file"}
           /\ UNCHANGED <<flags, run_pc, div, comment_page, read_comments, read_critical,
                          error>>
       ELSE IF Head(body) = "PEko" THEN
           /\ body' = Tail(body)
           /\ comment_page' = 1
           /\ read_comments' = Put(read_comments, 1, 0)
           /\ UNCHANGED <<flags, run_pc, reading_comments, reading_critical, div, bound,
                          read_critical, error>>
       ELSE IF Head(body) = "P" THEN
           IF comment_page \in DOMAIN read_comments
           THEN /\ body' = Tail(body)
                /\ read_comments' = Put(read_comments, comment_page,
                                        read_comments[comment_page] + 1)
                /\ UNCHANGED <<flags, run_pc, reading_comments, reading_critical, div,
                               comment_page, bound, read_critical, error>>
           ELSE Raise("KeyError")
       ELSE
           /\ body' = Tail(body)
           /\ UNCHANGED <<flags, run_pc, reading_comments, reading_critical, div,
                          comment_page, bound, read_comments, read_critical, error>>
    /\ UNCHANGED passVars /\ UNCHANGED fnVars

\* lines 761-829: a paragraph read while reading_critical
ReadCritical ==
    /\ run_pc = "transform_tree"
    /\ body # <<>>
    /\ Head(body) \notin HeaderKinds
    /\ ~reading_comments /\ reading_critical
    /\ IF Head(body) = "PEka" THEN
           /\ body' = Tail(body)
           /\ bound' = bound \cup {"critical_page", "critical_element"}
           /\ read_critical' = Put(read_critical, 1, 0)
           /\ UNCHANGED <<flags, run_pc, reading_comments, reading_critical, div,
                          comment_page, read_comments, error>>
       ELSE IF "critical_element" \in bound THEN
           /\ body' = Tail(body)
           /\ read_critical' = Put(read_critical, 1, read_critical[1] + 1)
           /\ UNCHANGED <<flags, run_pc, reading_comments, reading_critical, div,
                          comment_page, bound, read_comments, error>>
       ELSE Raise("UnboundLocalError")
    /\ UNCHANGED passVars /\ UNCHANGED fnVars

\* lines 831-928: a paragraph of the text; <TEXT_START> opens the div, the
\* heading of the comments starts the reading of the comments
ReadText ==
    /\ run_pc = "transform_tree"
    /\ body # <<>>
    /\ Head(body) \notin HeaderKinds
    /\ ~reading_comments /\ ~reading_critical
    /\ body' = Tail(body)
    /\ div' = (div \/ Head(body) = "TEXT_START")
    /\ reading_comments' = (div /\ Head(body) = "COMMENTARY")
    /\ comment_page' = IF div /\ Head(body) = "COMMENTARY" THEN 0 ELSE comment_page
    /\ UNCHANGED <<flags, run_pc, reading_critical, bound, read_comments, read_critical,
                   error>>
    /\ UNCHANGED passVars /\ UNCHANGED fnVars

\* lines 931-963: special mode groups the entries of every apparatus page by
\* witness and merges the groups into the first one, separated[0]
SpecialMerge ==
    /\ run_pc = "transform_tree"
    /\ body = <<>>
    /\ IF flags.special_critical /\ \E pg \in DOMAIN read_critical : read_critical[pg] = 0
       THEN Raise("IndexError")
       ELSE /\ run_pc' = "merged"
            /\ UNCHANGED <<body, flags, reading_comments, reading_critical, div,
                           comment_page, bound, read_comments, read_critical, error>>
    /\ UNCHANGED passVars /\ UNCHANGED fnVars

\* lines 965-970: witnesses_file is read, then the names of the result
TransformReturn ==
    /\ run_pc = "merged"
    /\ IF "witnesses_file" \in bound /\ ReturnNames \subseteq bound
       THEN /\ run_pc' = "returned"
            /\ UNCHANGED <<body, flags, reading_comments, reading_critical, div,
                           comment_page, bound, read_comments, read_critical, error>>
       ELSE Raise("UnboundLocalError")
    /\ UNCHANGED passVars /\ UNCHANGED fnVars

\* main, lines 199-258: the result is unpacked, the passes run, the tree is
\* serialized
MainSerialize ==
    /\ run_pc = "returned"
    /\ run_pc' = "serialized"
    /\ UNCHANGED <<body, flags, reading_comments, reading_critical, div, comment_page,
                   bound, read_comments, read_critical, error>>
    /\ UNCHANGED passVars /\ UNCHANGED fnVars

NextRun ==
    \/ ReadHeader
    \/ ReadComments
    \/ ReadCritical
    \/ ReadText
    \/ SpecialMerge
    \/ TransformReturn
    \/ MainSerialize

\* no function is applied on its own
FnIdle == fn = "none" /\ fn_in = <<>> /\ fn_out = <<>> /\ fn_pc = "idle"

vars == <<passVars, runVars, fnVars>>
Init == InitPasses /\ RunAtPasses /\ FnIdle
Next == NextPasses
Spec == Init /\ [][Next]_vars

InitRun == PassesNotStarted /\ InitTransform /\ FnIdle
\* transform_tree and main up to the serialization
SpecRun == InitRun /\ [][NextRun]_vars

\* ------------------------------------------------- the functions on their own
\* the state of transform_tree and main before main calls transform_tree
RunNotStarted ==
    /\ body = <<>>
    /\ flags = [no_critical |-> FALSE, special_critical |-> FALSE, witnesses_file |-> FALSE]
    /\ run_pc = "main"
    /\ reading_comments = FALSE
    /\ reading_critical = FALSE
    /\ div = FALSE
    /\ comment_page = 0
    /\ bound = {}
    /\ read_comments = EmptyDict
    /\ read_critical = EmptyDict
    /\ error = ""

\* the parts of the apparatus entries of the model
PartPool ==
    {Part(None, <<"1">>), Part(None, <<" ">>), Part(None, <<"]">>), Part(None, <<"x">>),
     Part("italic", <<"W">>), Part(None, <<"1", " ", "x">>)}

\* the calls of format_critical of the model
FormatCriticalCalls ==
    [parts : SeqsUpTo(PartPool, MaxParts), doc_num : DocNums,
     wits : {NoWits, labyrint_wits("a")}]

\* lines 787, 808, 826: critical_element = format_critical(critical_element, ...)
FormatCritical ==
    /\ fn = "format_critical"
    /\ fn_pc = "call"
    /\ fn_out' = format_critical(fn_in.parts, fn_in.doc_num, fn_in.wits)
    /\ fn_pc' = "return"
    /\ UNCHANGED <<fn, fn_in>>
    /\ UNCHANGED passVars /\ UNCHANGED runVars

\* the number fields of the comments of a page: 0 for a field without digits
\* ('???', line 708), else the number its first digits spell
SortNumbers == {0, 1, 2, NoLineNum, NoLineNum + 1}
SortLabels == {<<"a">>, <<"b">>, <<"a", " ", "b">>}

\* comments[pe_number]: tuples (number, label_text, note_text, comment_i) in
\* the order they were read, comment_i counting up
PageQueues ==
    {[i \in 1..Len(q) |-> [number |-> q[i][1], label |-> q[i][2], note |-> <<"n">>,
                           comment_i |-> i]]
       : q \in SeqsUpTo(SortNumbers \X SortLabels, MaxAnnots + 1)}

\* line 1302: sorted_comments = sorted(comments[pe_number], key=get_sort_key)
SortComments ==
    /\ fn = "sorted"
    /\ fn_pc = "call"
    /\ fn_out' = sorted_by_key(fn_in)
    /\ fn_pc' = "return"
    /\ UNCHANGED <<fn, fn_in>>
    /\ UNCHANGED passVars /\ UNCHANGED runVars

\* the sigla of a document: the keys of edition_ids[doc_num]
Sigla(doc_num) == DOMAIN edition_ids(doc_num)

\* ', ' and the conjunction ' a '
Separators == {<<",", " ">>, <<" ", "a", " ">>}

RECURSIVE spell(_, _)
\* the attribution that lists sigla with the separators seps between them
spell(sigla, seps) ==
    IF Len(sigla) = 1 THEN sigla[1]
    ELSE sigla[1] \o seps[1] \o spell(Tail(sigla), Tail(seps))

\* attributions without a known siglum
UnknownAttributions ==
    {<<"x", "y", "z">>, <<"x", "a", "z">>, <<"x", ",", "y">>, <<"x", " ", "a", " ", "y">>}

\* the calls of parse_wits: lines 1083 (lemma side: position 'a', the default
\* witness added), 1114 (position 'a') and 1122 (position 'b'); sigla is the
\* list the attribution spells, empty for one without a known siglum
ParseWitsShapes ==
    {[position |-> "a", add_default |-> TRUE], [position |-> "a", add_default |-> FALSE],
     [position |-> "b", add_default |-> FALSE]}
ParseWitsCalls ==
    {[wit_str |-> spell(l, sp), sigla |-> l, doc_num |-> d,
      position |-> sh.position, add_default |-> sh.add_default]
       : <<d, l, sp, sh>> \in
           UNION {{d} \X [1..n -> Sigla(d)] \X [1..(n - 1) -> Separators] \X ParseWitsShapes
                    : <<d, n>> \in DocNums \X (1..MaxSigla)}}
    \cup
    {[wit_str |-> u, sigla |-> <<>>, doc_num |-> d,
      position |-> sh.position, add_default |-> sh.add_default]
       : <<u, d, sh>> \in UnknownAttributions \X DocNums \X ParseWitsShapes}

\* parse_wits, lines 1055-1071: refs are the references, joined the string
\* it returns
ParseWits ==
    /\ fn = "parse_wits"
    /\ fn_pc = "call"
    /\ fn_out' = [refs |-> parsed_wits(fn_in.wit_str, fn_in.doc_num, fn_in.position,
                                        fn_in.add_default),
                   joined |-> parse_wits(fn_in.wit_str, fn_in.doc_num, fn_in.position,
                                         fn_in.add_default)]
    /\ fn_pc' = "return"
    /\ UNCHANGED <<fn, fn_in>>
    /\ UNCHANGED passVars /\ UNCHANGED runVars

\* the calls of match_wit_simple (line 1668): the text of a line and the
\* sigla of the document, longest first; sigla is the list the text spells
MatchWitSimpleCalls ==
    {[text |-> b \o spell(l, sp) \o a, before |-> b, after |-> a, sigla |-> l, doc_num |-> d]
       : <<d, l, sp, b, a>> \in
           UNION {{d} \X [1..n -> Sigla(d)] \X [1..(n - 1) -> Separators]
                      \X {<<>>, <<"x", " ">>} \X {<<>>, <<" ", "x">>}
                    : <<d, n>> \in DocNums \X (1..MaxSigla)}}
    \cup
    {[text |-> u, before |-> u, after |-> <<>>, sigla |-> <<>>, doc_num |-> d]
       : <<u, d>> \in UnknownAttributions \X DocNums}

\* lines 1666-1668: match_wit_simple(text, get_possible_wits(doc_num))
MatchWitSimple ==
    /\ fn = "match_wit_simple"
    /\ fn_pc = "call"
    /\ fn_out' = match_wit_simple(fn_in.text, get_possible_wits(fn_in.doc_num))
    /\ fn_pc' = "return"
    /\ UNCHANGED <<fn, fn_in>>
    /\ UNCHANGED passVars /\ UNCHANGED runVars

\* the parts of the reading sides of the model
ReadingPool ==
    {Part(None, <<"x">>), Part(None, <<" ", "y", " ">>), Part(None, <<",">>),
     Part("italic", <<"W">>), Part("italic", <<"M", ",", " ", "S", "r">>)}

\* lines 1004-1006 and 1134: what format_critical makes of the parts after the
\* bracket before it hands them to extract_witnesses_right
reading_side(parts) ==
    LET n      == Len(parts)
        after1 == [parts EXCEPT ![1] = Part(parts[1].style, LStrip(parts[1].text))]
        after2 == [after1 EXCEPT ![n] = Part(after1[n].style, RStrip(after1[n].text))]
    IN  repair_italics_in_critical(after2).val

\* the calls of extract_witnesses_right, line 1138
ExtractWitnessesRightCalls ==
    [after : {reading_side(parts) : parts \in SeqsUpTo(ReadingPool, MaxParts) \ {<<>>}},
     doc_num : DocNums]

\* extract_witnesses_right, lines 1085-1123
ExtractWitnessesRight ==
    /\ fn = "extract_witnesses_right"
    /\ fn_pc = "call"
    /\ fn_out' = extract_witnesses_right(fn_in.after, fn_in.doc_num)
    /\ fn_pc' = "return"
    /\ UNCHANGED <<fn, fn_in>>
    /\ UNCHANGED passVars /\ UNCHANGED runVars

\* the entries of an apparatus page in special mode: the lemma of the
\* edition and one reading of the witness of a group (lines 1142-1143), or
\* the readings extract_witnesses_right finds in a paragraph without the
\* mark of a group (current_wits = None, line 763)
MergeOrdinals == {1, 2}
MergeLemmas == {<<"x">>, <<"y">>}
MergeReadings ==
    {<<Attested(w, t)>> : <<w, t>> \in {labyrint_wits("a").rdg, labyrint_wits("b").rdg}
                                       \X {<<"c">>, <<"d">>}}
    \cup {<<Attested(labyrint_wits("b").rdg, <<"c">>), Attested(labyrint_wits("c").rdg, <<"d">>)>>,
          <<Attested(labyrint_wits("b").rdg, <<"d">>), Attested(labyrint_wits("c").rdg, <<"c">>)>>}
MergeEntries ==
    {Entry(n, <<Attested(<<"#">> \o DJAK03, l)>>, r)
       : <<n, l, r>> \in MergeOrdinals \X MergeLemmas \X MergeReadings}

\* the apparatus pages of the model
MergePages == SeqsUpTo(MergeEntries, MaxEntries)

\* lines 934-963: the merge of one apparatus page
SpecialMergePage ==
    /\ fn = "special_merge"
    /\ fn_pc = "call"
    /\ fn_out' = merge_page(fn_in)
    /\ fn_pc' = "return"
    /\ UNCHANGED <<fn, fn_in>>
    /\ UNCHANGED passVars /\ UNCHANGED runVars

\* the labels of the model that hold period runs, soft hyphens or nothing
SearchLabels ==
    {<<>>, <<" ">>, <<SoftHyphen>>, <<SoftHyphen, " ", SoftHyphen>>,
     <<".", ".", ".">>, <<EllipsisChar>>, <<".", " ", ".", " ", ".">>,
     <<".", ".", ".", " ", ".", ".", ".">>, <<".", ".", " ", ".">>,
     <<"x">>, <<"x", ".", "y">>, <<"x", ".", ".", "y">>, <<"x", ".", " ", ".", "y">>,
     <<"x", ".", ".", ".", "y">>, <<"x", ".", ".", " ", ".", "y">>,
     <<"x", ".", " ", ".", " ", ".", "y">>, <<"x", EllipsisChar, "y">>,
     <<"x", " ", ".", ".", ".", " ", "y">>}

\* the field texts of the model
SearchTexts ==
    SeqsUpTo({"x", "y", ".", " "}, MaxField)
    \cup {<<"x", "z", "z", "y">>, <<"x", ".", " ", ".", "y">>, <<"x", " ", "z", " ", "y">>,
          <<Placeholder>>, <<"z", EllipsisChar>>, <<",", "z">>}

\* lines 1311 and 1347 (1571 and 1581 for an entry of the apparatus):
\* label_regex = create_label_regex(label), then
\* label_regex.search(strip_accents(safe(text))) on a field
LabelSearch ==
    /\ fn = "create_label_regex"
    /\ fn_pc = "call"
    /\ fn_out' = [impossible |-> create_label_regex(fn_in.label).impossible,
                  m |-> regex_search(create_label_regex(fn_in.label),
                                     strip_accents(safe(fn_in.text)))]
    /\ fn_pc' = "return"
    /\ UNCHANGED <<fn, fn_in>>
    /\ UNCHANGED passVars /\ UNCHANGED runVars
\* field texts that are split at a match, with characters that unidecode
\* changes, and the labels searched in them
SplitTexts ==
    { <<"b", " ", AAcute>>, <<AAcute, " ", "b">>, <<"a", " ", "b", " ", "a">>,
      <<EllipsisChar, " ", "a">>, <<"a", " ", EllipsisChar>>,
      <<"b", EllipsisChar, " ", AAcute, ",">>, <<"b">> }
SplitLabels == {<<"a">>, <<"b">>, <<AAcute>>, <<"b", " ", "a">>}

\* the search of a label in a field and the split of the field at the match,
\* as add_comments with add_comment and add_critical_apparatus with
\* add_critical do them: the label is searched in the accent-stripped copy,
\* the field itself is sliced at the offsets of the match
SplitField ==
    /\ fn = "split"
    /\ fn_pc = "call"
    /\ LET label_match == regex_search(create_label_regex(fn_in.label),
                                       strip_accents(safe(fn_in.text)))
       IN  fn_out' = [m |-> label_match,
                      before |-> text_before(fn_in.text, label_match),
                      label |-> text_label(fn_in.text, label_match),
                      after |-> text_after(fn_in.text, label_match)]
    /\ fn_pc' = "return"
    /\ UNCHANGED <<fn, fn_in>>
    /\ UNCHANGED passVars /\ UNCHANGED runVars

\* one call of one function, its arguments drawn from the inputs of the model
InitFn ==
    /\ fn_out = <<>>
    /\ fn_pc = "call"
    /\ \/ fn = "format_critical" /\ fn_in \in FormatCriticalCalls
       \/ fn = "sorted" /\ fn_in \in PageQueues
       \/ fn = "parse_wits" /\ fn_in \in ParseWitsCalls
       \/ fn = "match_wit_simple" /\ fn_in \in MatchWitSimpleCalls
       \/ fn = "extract_witnesses_right" /\ fn_in \in ExtractWitnessesRightCalls
       \/ fn = "special_merge" /\ fn_in \in MergePages
       \/ fn = "create_label_regex" /\ fn_in \in [label : SearchLabels, text : SearchTexts]
       \/ fn = "split" /\ fn_in \in [label : SplitLabels, text : SplitTexts]

\* one function returns
NextFn ==
    \/ FormatCritical
    \/ SortComments
    \/ ParseWits
    \/ MatchWitSimple
    \/ ExtractWitnessesRight
    \/ SpecialMergePage
    \/ LabelSearch
    \/ SplitField

\* every function of the apparatus and of the ordering applied to the inputs
\* of the model
InitFunctions == PassesNotStarted /\ RunNotStarted /\ InitFn
SpecFn == InitFunctions /\ [][NextFn]_vars

\* ---------------------------------------------------------------- footnotes
\* A footnote marker '<FN_n>' is one character of a text.
FootnoteMarkers == {"<FN_1>", "<FN_2>"}
footnote_num(c) == IF c = "<FN_1>" THEN 1 ELSE 2

\* footnote_re.search(str(text)): the leftmost marker of the text; str(None)
\* is 'None' and holds no marker
footnote_re_search(text) ==
    IF \E i \in 1..Len(text) : text[i] \in FootnoteMarkers
    THEN LET i == CHOOSE j \in 1..Len(text) :
                      /\ text[j] \in FootnoteMarkers
                      /\ \A h \in 1..(j - 1) : text[h] \notin FootnoteMarkers
         IN  [found |-> TRUE, start |-> i - 1, end |-> i, num |-> footnote_num(text[i])]
    ELSE [found |-> FALSE, start |-> 0, end |-> 0, num |-> 0]

\* add_comment with note_type 'commentary' on a paragraph elem: the anchor
\* takes the matched text as its tail, the note is added after the anchor
\* (and its tail) and takes the text after the match as its tail.
\* current_node is the kid whose tail holds the match, 0 for None;
\* elem.index(current_node) raises when it is no child of elem.
add_commentary(tr, nid, elem, label_match, number, note_text, current_node) ==
    LET anchor == [Element(nid, "anchor") EXCEPT !.n = number]
        note   == [Element(nid + 1, "note") EXCEPT !.n = number, !.note = note_text]
    IN  IF current_node # 0 /\ getparent(tr, current_node) # elem THEN
            [raised |-> TRUE, tree |-> tr, anchor |-> 0, next |-> nid]
        ELSE IF current_node # 0 THEN
            LET field == NodeOf(tr, current_node).tail
                k     == index(tr, current_node)
                t1    == WithTail(tr, current_node, text_before(field, label_match))
                k1    == InsertAt(t1[elem].kids, k + 1,
                                  [anchor EXCEPT !.tail = text_label(field, label_match)])
                k2    == InsertAt(k1, k + 2,
                                  [note EXCEPT !.tail = text_after(field, label_match)])
            IN  [raised |-> FALSE, tree |-> WithKids(t1, elem, k2),
                 anchor |-> nid, next |-> nid + 2]
        ELSE
            LET field == tr[elem].text
                k1    == InsertAt(tr[elem].kids, 0,
                                  [anchor EXCEPT !.tail = text_label(field, label_match)])
                k2    == InsertAt(k1, 1,
                                  [note EXCEPT !.tail = text_after(field, label_match)])
            IN  [raised |-> FALSE,
                 tree |-> [tr EXCEPT ![elem] = [text |-> text_before(field, label_match),
                                                kids |-> k2]],
                 anchor |-> nid, next |-> nid + 2]

\* the paragraphs and the footnote tables of the model
FootnoteBlocks ==
    { Block(<<"a">>, <<>>),
      Block(<<"a", "<FN_1>", "b">>, <<>>),
      Block(<<"<FN_2>">>, <<hi(<<"c">>, <<"d">>)>>),
      Block(<<"a">>, <<hi(<<"c">>, <<"<FN_1>", "d">>)>>),
      Block(<<"<FN_1>", "b">>, <<hi(<<"c">>, <<"<FN_2>">>)>>),
      Block(<<"<FN_2>", "b", "<FN_1>">>, <<hi(<<"c">>, <<>>)>>) }

FootnoteTables ==
    UNION {[nums -> {<<"n">>}] : nums \in SUBSET {1, 2}}

FootnoteCalls ==
    [tree : {MkDoc(bs) : bs \in [1..1 -> FootnoteBlocks] \cup [1..2 -> FootnoteBlocks]},
     footnotes : FootnoteTables,
     comment_i : 0..1]

\* the largest node id of a tree
LargestId(tr) == CHOOSE m \in NodeIds(tr) \cup {0} : \A i \in NodeIds(tr) : i <= m

\* the state of add_footnotes at the top of its for loop, paragraph e next
footnotes_state(tr, nid, number, note, e, consumed, scans) ==
    [tree |-> tr, nid |-> nid, comment_i |-> number, note |-> note, e |-> e,
     consumed |-> consumed, scans |-> scans, raised |-> FALSE]

\* add_footnotes is entered: note = None, the first paragraph is next
AddFootnotesStart ==
    /\ fn = "add_footnotes"
    /\ fn_pc = "call"
    /\ fn_out' = footnotes_state(fn_in.tree, 1 + LargestId(fn_in.tree),
                                 fn_in.comment_i, 0, 1, <<>>, 0)
    /\ fn_pc' = "for"
    /\ UNCHANGED <<fn, fn_in>>
    /\ UNCHANGED passVars /\ UNCHANGED runVars

\* one paragraph of the for loop, up to the test of its while loop: the head
\* text is searched; a marker of the table is spliced and note becomes the
\* value add_comment returns, the anchor; with note still None the first
\* child is taken
FootnotesParagraph ==
    /\ fn = "add_footnotes"
    /\ fn_pc = "for"
    /\ fn_out.e <= Len(fn_out.tree)
    /\ LET st == fn_out
           elem == st.e
           footnote_match == footnote_re_search(st.tree[elem].text)
           known == footnote_match.found /\ footnote_match.num \in DOMAIN fn_in.footnotes
           r == add_commentary(st.tree, st.nid, elem, footnote_match, st.comment_i + 1,
                               IF known THEN fn_in.footnotes[footnote_match.num] ELSE <<>>, 0)
           tr1 == IF known THEN r.tree ELSE st.tree
           note1 == IF known THEN r.anchor ELSE st.note
           note2 == IF note1 = 0 /\ Len(tr1[elem].kids) > 0
                    THEN tr1[elem].kids[1].id ELSE note1
       IN  IF ~footnote_match.found
           THEN /\ fn_out' = [st EXCEPT !.e = elem + 1]
                /\ fn_pc' = "for"
           ELSE /\ fn_out' = [st EXCEPT
                                !.tree = tr1,
                                !.nid = IF known THEN r.next ELSE st.nid,
                                !.comment_i = IF known THEN st.comment_i + 1 ELSE st.comment_i,
                                !.note = note2,
                                !.consumed = IF known
                                             THEN Append(st.consumed, <<elem, footnote_match.num>>)
                                             ELSE st.consumed,
                                !.e = IF note2 = 0 THEN elem + 1 ELSE elem]
                /\ fn_pc' = IF note2 = 0 THEN "for" ELSE "while"
    /\ UNCHANGED <<fn, fn_in>>
    /\ UNCHANGED passVars /\ UNCHANGED runVars

\* one iteration of the while loop: the tail of note is searched; no marker
\* ends the loop; a marker of the table is spliced after note and note
\* becomes the new anchor; any other marker leaves note as it is
FootnotesTail ==
    /\ fn = "add_footnotes"
    /\ fn_pc = "while"
    /\ fn_out.scans < MaxScans
    /\ LET st == fn_out
           elem == st.e
           footnote_match == footnote_re_search(NodeOf(st.tree, st.note).tail)
           known == footnote_match.found /\ footnote_match.num \in DOMAIN fn_in.footnotes
           r == add_commentary(st.tree, st.nid, elem, footnote_match, st.comment_i + 1,
                               IF known THEN fn_in.footnotes[footnote_match.num] ELSE <<>>,
                               st.note)
       IN  IF ~footnote_match.found
           THEN /\ fn_out' = [st EXCEPT !.e = elem + 1, !.scans = st.scans + 1]
                /\ fn_pc' = "for"
           ELSE IF known /\ r.raised
           THEN /\ fn_out' = [st EXCEPT !.raised = TRUE, !.comment_i = st.comment_i + 1]
                /\ fn_pc' = "raise"
           ELSE /\ fn_out' = [st EXCEPT
                                !.tree = IF known THEN r.tree ELSE st.tree,
                                !.nid = IF known THEN r.next ELSE st.nid,
                                !.comment_i = IF known THEN st.comment_i + 1 ELSE st.comment_i,
                                !.note = IF known THEN r.anchor ELSE st.note,
                                !.consumed = IF known
                                             THEN Append(st.consumed, <<elem, footnote_match.num>>)
                                             ELSE st.consumed,
                                !.scans = st.scans + 1]
                /\ fn_pc' = "while"
    /\ UNCHANGED <<fn, fn_in>>
    /\ UNCHANGED passVars /\ UNCHANGED runVars

\* the for loop is over: add_footnotes returns the tree
AddFootnotesReturn ==
    /\ fn = "add_footnotes"
    /\ fn_pc = "for"
    /\ fn_out.e > Len(fn_out.tree)
    /\ fn_pc' = "return"
    /\ UNCHANGED <<fn, fn_in, fn_out>>
    /\ UNCHANGED passVars /\ UNCHANGED runVars

InitFootnotes ==
    /\ PassesNotStarted /\ RunNotStarted
    /\ fn = "add_footnotes" /\ fn_in \in FootnoteCalls
    /\ fn_out = <<>> /\ fn_pc = "call"

NextFootnotes ==
    \/ AddFootnotesStart
    \/ FootnotesParagraph
    \/ FootnotesTail
    \/ AddFootnotesReturn

\* the footnote pass on the paragraphs and tables of the model
SpecFootnotes == InitFootnotes /\ [][NextFootnotes]_vars

\* ------------------------------------------------- add_comments, add_footnotes
\* documents whose paragraphs hold footnote markers in their head text
MarkedBlocks ==
    { Block(<<"<FN_1>">>, <<pb(1, <<"a", " ", "b">>)>>),
      Block(<<"c", "<FN_2>">>, <<pb(2, <<"b">>)>>),
      Block(<<"a">>, <<>>) }

MarkedDocs == {MkDoc(bs) : bs \in UNION {[1..n -> MarkedBlocks] : n \in 1..MaxParas}}

\* main, lines 222-225: add_footnotes is called with the tree and the
\* comment_i that add_comments returned
MainAddFootnotes ==
    /\ pc = "add_critical"
    /\ fn = "none"
    /\ \E footnotes \in FootnoteTables :
           fn_in' = [tree |-> tree, footnotes |-> footnotes, comment_i |-> comment_i]
    /\ fn' = "add_footnotes"
    /\ fn_pc' = "call"
    /\ UNCHANGED fn_out
    /\ UNCHANGED passVars /\ UNCHANGED runVars

InitNotes ==
    /\ \E doc \in MarkedDocs, cs \in SeqsUpTo(RawComments, MaxAnnots), a \in ArgSets :
           PassesAt(doc, cs, <<>>, a)
    /\ RunAtPasses
    /\ FnIdle

NextNotes ==
    \/ AddCommentsStart
    \/ CommentsPage
    \/ CommentNext
    \/ CommentSearch
    \/ CommentNotFound
    \/ AddCommentsReturn
    \/ MainAddFootnotes
    \/ AddFootnotesStart
    \/ FootnotesParagraph
    \/ FootnotesTail
    \/ AddFootnotesReturn

\* add_comments, then add_footnotes, on the documents with markers
SpecNotes == InitNotes /\ [][NextNotes]_vars

\* the passes under the scheduling of the interpreter: a step that can be
\* taken is taken
FairSpec == Spec /\ WF_vars(Next)

\* ------------------------------------------------------------- properties
Last(s) == s[Len(s)]

\* the nodes of the tree: the blocks and their kids
NodeCount(tr) == Len(tr) + Cardinality(NodeIds(tr))

\* whether sequence sub occurs in sequence s as a contiguous part
Contains(s, sub) ==
    \E i \in 0..(Len(s) - Len(sub)) : SubSeq(s, i + 1, i + Len(sub)) = sub

\* the first pb after kid st in document order, 0 when there is none
NextPb(tr, st) ==
    LET later == {id \in NodeIds(tr) : NodeOf(tr, id).tag = "pb"
                                       /\ NodePos(tr, id) > NodePos(tr, st)}
    IN  IF later = {} THEN 0
        ELSE CHOOSE id \in later : \A o \in later : NodePos(tr, id) <= NodePos(tr, o)

\* the position in document order of the owner of a tested field
ProbePos(tr, pr) == IF pr.node = 0 THEN BlockPos(tr, pr.par) ELSE NodePos(tr, pr.node)

\* the placements of a kind
PlacedOf(kind) == {i \in DOMAIN placed : placed[i].kind = kind}

\* C1: the visible text of the document, read in document order, is the
\* same character sequence as before the placements of add_comment and
\* add_critical.
C1_VisibleTextPreserved == VisibleText(tree) = VisibleText(tree0)

\* the pieces a splice wrote back: what the original owner of the field
\* holds, the matched text, and what follows it
SpliceOwnerText(tr, sp) ==
    IF sp.kind = "tail" THEN NodeOf(tr, sp.owner).tail
    ELSE IF sp.kind = "head" THEN tr[sp.owner].text
    ELSE NodeOf(tr, sp.owner).text
SpliceBefore(tr, sp) ==
    IF sp.kind = "run"
    THEN (IF sp.before = 0 THEN <<>> ELSE NodeOf(tr, sp.before).text)
    ELSE SpliceOwnerText(tr, sp)
SpliceMatched(tr, sp) ==
    IF sp.kind = "run" THEN NodeOf(tr, sp.owner).text
    ELSE IF sp.anchor # 0 THEN NodeOf(tr, sp.anchor).tail
    ELSE NodeOf(tr, sp.app).lem
SpliceAfter(tr, sp) ==
    IF sp.kind = "run"
    THEN (IF sp.after = 0 THEN <<>> ELSE NodeOf(tr, sp.after).text)
    ELSE NodeOf(tr, sp.app).tail

\* C2: the pieces before | matched | after a splice of add_comment or
\* add_critical writes back concatenate to the original field (also when
\* add_critical moves a trailing punctuation mark out of the lemma).  For a
\* match in a tail or in the head text of a block, before stays on the
\* original owner and after is the tail of the last inserted node; for a match
\* in the head text of a styled run, the run keeps the matched text, before
\* and after are the head texts of the clones, and a clone exists exactly
\* when its piece is not empty.
C2_SplicePieces ==
    splice.kind # "none" =>
        /\ SpliceBefore(tree, splice) \o SpliceMatched(tree, splice)
             \o SpliceAfter(tree, splice) = splice.field
        /\ SpliceBefore(tree, splice) = text_before(splice.field, splice.m)
        /\ Len(SpliceMatched(tree, splice)) + Len(SpliceAfter(tree, splice))
             = Len(splice.field) - splice.m.start
        /\ splice.kind = "run" =>
             /\ SpliceMatched(tree, splice) = text_label(splice.field, splice.m)
             /\ (splice.before # 0) = (text_before(splice.field, splice.m) # <<>>)
             /\ (splice.after # 0) = (text_after(splice.field, splice.m) # <<>>)
             /\ NodeOf(tree, splice.app).tail = <<>>

\* C2 as claimed: in every splice before stays on the original owner and
\* after is the tail of the last inserted node
C2_OwnerKeepsBefore ==
    splice.kind # "none" =>
        /\ SpliceOwnerText(tree, splice) = text_before(splice.field, splice.m)
        /\ SpliceOwnerText(tree, splice) \o SpliceMatched(tree, splice)
             \o NodeOf(tree, splice.app).tail = splice.field

C2_Witness ==
    /\ splice.kind = "tail"
    /\ splice.anchor = 0
    /\ moved_punctuation(text_label(splice.field, splice.m), ann.lem.text) # <<>>
    /\ text_after(splice.field, splice.m) # <<>>

\* C3: at the end of add_comments the number of comments placed plus the
\* reported failure count is the reported total, the number of all queued
\* comments.
C3_PlacedPlusFailedIsTotal ==
    \A r \in {report[i] : i \in DOMAIN report} :
        r.kind = "comment" => Cardinality(PlacedOf("comment")) + r.failed = r.total

C5_DistinctOccurrences ==
    \A i, j \in PlacedOf("comment") :
        (i < j /\ placed[i].page = placed[j].page /\ placed[i].label = placed[j].label)
            => TextOffset(tree, placed[i].node) < TextOffset(tree, placed[j].node)

\* C6: a search never tests a field that lies after the next pb that follows
\* the pb of its page, never places a node there, and the search of a comment
\* whose cursor has reached that pb has stopped.
C6_ScopedSearch ==
    LET nx == NextPb(tree, start)
    IN  /\ \A pr \in probes : nx = 0 \/ ProbePos(tree, pr) < NodePos(tree, nx)
        /\ (event = "placed" /\ nx # 0)
              => NodePos(tree, Last(placed).node) < NodePos(tree, nx)
        /\ (pc = "c_search" /\ nx # 0 /\ current = nx) => current_p = 0
        /\ (pc = "k_search" /\ nx # 0 /\ current = nx /\ look_in_tail) => ~search

C6_Witness ==
    /\ event = "failed"
    /\ pc = "c_next"
    /\ current # 0
    /\ current = NextPb(tree, start)
    /\ regex_search(create_label_regex(ann.label),
                    strip_accents(NodeOf(tree, current).tail)).found

\* C7: when a search ends without a match the tree is as it was when the
\* annotation was taken, and a failure record carries the entry: the line of
\* the comment failure file holds the label and the note of the comment, the
\* list failed[page] ends with the ordinal, lemma and readings of the entry.
C7_FailureRecorded ==
    event = "failed" =>
        /\ tree = mark
        /\ pc = "c_next" =>
             /\ comment_file # <<>>
             /\ Last(comment_file).page = pe_number
             /\ Last(comment_file).dud.label = ann.label
             /\ Last(comment_file).dud.note = ann.note
        /\ pc = "k_next" =>
             /\ pe_number \in DOMAIN failed
             /\ Last(failed[pe_number])
                  = [number |-> ann.number, lem |-> ann.lem, rdg |-> ann.rdg]

\* C8: of two placed annotations of the same kind and page, the node of
\* the one with the lower ordinal is at or before the node of the other in
\* document order.
C8_PlacementOrder ==
    \A i, j \in DOMAIN placed :
        (placed[i].kind = placed[j].kind /\ placed[i].page = placed[j].page
         /\ placed[i].number < placed[j].number)
            => NodePos(tree, placed[i].node) <= NodePos(tree, placed[j].node)

\* C9: the content of every processed annotation is kept: the note of a
\* placed comment (up to surrounding white space) and the readings of a placed
\* entry are in the tree; the label and the note of a failed comment are in
\* the line written for it, the lemma and the readings of a failed entry are
\* in the line written for it.
C9_ContentKept ==
    /\ \A i \in PlacedOf("comment") :
           Contains(NodeOf(tree, placed[i].app).note, Strip(placed[i].note))
    /\ \A i \in PlacedOf("critical") :
           LET rdgs == NodeOf(tree, placed[i].app).rdgs
           IN  /\ Len(rdgs) = Len(placed[i].rdg)
               /\ \A k \in DOMAIN rdgs : rdgs[k].text = placed[i].rdg[k].text
    /\ (event = "failed" /\ pc = "c_next") =>
           /\ comment_file # <<>>
           /\ Last(comment_file).dud.label = ann.label
           /\ Last(comment_file).dud.note = ann.note
    /\ (event = "failed" /\ pc = "k_next") =>
           /\ apparatus_file # <<>>
           /\ Last(apparatus_file).dud.lem = ann.lem.text
           /\ Last(apparatus_file).dud.rdgs = ann.rdg

\* C10: transform_tree and main end without an uncaught exception, whichever
\* header markers and sections the document holds and whichever of
\* --no-critical, --special-critical and the witnesses file are given.
C10_RunCompletes == run_pc # "error"

\* C11: format_critical never raises: for every sequence of parts (the empty
\* one, one with nothing before the bracket, one whose first part is blank)
\* it returns None or a triple (ordinal, lemma, readings).
C11_FormatCriticalNeverRaises ==
    (fn = "format_critical" /\ fn_pc = "return") => fn_out.exc = ""

\* the order C12 names: a numeric ordinal before a missing one, numeric
\* ordinals ascending, then the longer label first, then the input index
NamedOrder(x, y) ==
    \/ x.number # 0 /\ y.number = 0
    \/ x.number # 0 /\ y.number # 0 /\ x.number < y.number
    \/ /\ x.number = y.number
       /\ \/ Len(x.label) > Len(y.label)
          \/ Len(x.label) = Len(y.label) /\ x.comment_i < y.comment_i

\* C12: the order add_comments processes the comments of a page in is a
\* permutation of the page's queue in which a numeric ordinal comes before
\* every missing or non-numeric one, numeric ordinals ascend, equal ordinals
\* have the longer label first, and equal ordinal and label length keep the
\* input order.
C12_SortedByKey ==
    (fn = "sorted" /\ fn_pc = "return") =>
        /\ Len(fn_out) = Len(fn_in)
        /\ {fn_out[i] : i \in DOMAIN fn_out} = {fn_in[i] : i \in DOMAIN fn_in}
        /\ \A i, j \in DOMAIN fn_out : i < j => NamedOrder(fn_out[i], fn_out[j])

\* the order of C12 among the comments whose ordinal is below the value that
\* stands for a missing ordinal
C12_SortedBelowSentinel ==
    (fn = "sorted" /\ fn_pc = "return") =>
        /\ Len(fn_out) = Len(fn_in)
        /\ {fn_out[i] : i \in DOMAIN fn_out} = {fn_in[i] : i \in DOMAIN fn_in}
        /\ \A i, j \in DOMAIN fn_out :
             (i < j /\ fn_out[i].number < NoLineNum /\ fn_out[j].number < NoLineNum)
                 => NamedOrder(fn_out[i], fn_out[j])

\* the offsets in VisibleText(mark) of the match of the last splice
MatchStart(sp) ==
    sp.m.start + (IF sp.kind = "tail" THEN TailOffset(mark, sp.owner)
                  ELSE IF sp.kind = "head" THEN BlockOffset(mark, sp.owner)
                  ELSE TextOffset(mark, sp.owner))
MatchEnd13(sp) == MatchStart(sp) + (sp.m.end - sp.m.start)

\* the anchor stands right after the text that preceded the match and the
\* app with the note right before the text that followed it
PairBetweenTexts(sp) ==
    /\ Slice(VisibleText(tree), 0, TextOffset(tree, sp.anchor))
         = Slice(VisibleText(mark), 0, MatchStart(sp))
    /\ Slice(VisibleText(tree), TailOffset(tree, sp.app), Len(VisibleText(tree)))
         = Slice(VisibleText(mark), MatchEnd13(sp), Len(VisibleText(mark)))
    /\ NodePos(tree, sp.anchor) < NodePos(tree, sp.app)

\* C13: after a gloss comment is placed, the anchor + note pair stands between
\* the text that precedes the match and the text that follows it, and the
\* content text of the note is the content string of the comment.
C13_AnchorNotePair ==
    (splice.kind # "none" /\ splice.anchor # 0) =>
        /\ PairBetweenTexts(splice)
        /\ NodeOf(tree, splice.app).note = ann.note

\* one reference per listed siglum, mapped through the sigla table
ListedRefs(sigla, doc_num) ==
    [i \in 1..Len(sigla) |-> <<"#">> \o edition_ids(doc_num)[sigla[i]]]

\* C14: parse_wits of an attribution that lists known sigla separated by
\* commas or ' a ' yields one reference per listed siglum, in input order,
\* each mapped through the sigla table; on the lemma side (add_default) the
\* reference '#DJAK03' of the edition comes first, on the reading side there
\* is no other reference.
C14_OneReferencePerSiglum ==
    (fn = "parse_wits" /\ fn_pc = "return" /\ fn_in.sigla # <<>>) =>
        /\ fn_out.refs = (IF fn_in.add_default THEN <<<<"#">> \o DJAK03>> ELSE <<>>)
                         \o ListedRefs(fn_in.sigla, fn_in.doc_num)
        /\ fn_out.joined = join(<<" ">>, fn_out.refs)

\* C14 as claimed: the references are those of the listed sigla and no other,
\* on the lemma side as on the reading side
C14_NoOtherReference ==
    (fn = "parse_wits" /\ fn_pc = "return" /\ fn_in.sigla # <<>>) =>
        fn_out.refs = ListedRefs(fn_in.sigla, fn_in.doc_num)

C14_Witness ==
    /\ fn = "parse_wits" /\ fn_pc = "return"
    /\ fn_in.wit_str = <<"W", ",", " ", "S", "r", " ", "a", " ", "S", "t">>
    /\ fn_in.add_default
    /\ Len(fn_out.refs) = 4

\* C15: parse_wits of an attribution without a known siglum yields a single
\* marker that holds the raw string unchanged (after the reference of the
\* edition when add_default is set).
C15_SingleUnparsedMarker ==
    (fn = "parse_wits" /\ fn_pc = "return" /\ fn_in.sigla = <<>>) =>
        fn_out.refs = (IF fn_in.add_default THEN <<<<"#">> \o DJAK03>> ELSE <<>>)
                      \o <<tbd_marker(fn_in.position, fn_in.wit_str)>>

\* t stands somewhere inside s
occurs_in(t, s) ==
    \E i \in 1..(Len(s) - Len(t) + 1) : starts_with(s, i, t)

\* the sigla of a document inside which a shorter siglum of it stands
LongerSigla(doc_num) ==
    {s \in Sigla(doc_num) : \E t \in Sigla(doc_num) : t # s /\ occurs_in(t, s)}

CitesLongerSiglum ==
    \E i \in 1..Len(fn_in.sigla) : fn_in.sigla[i] \in LongerSigla(fn_in.doc_num)

\* C16: a citation that spells a siglum inside which a shorter siglum of the
\* document stands ('DJAK03' and 'A' of document 08) is read as the longer
\* siglum: parse_wits yields one reference per listed siglum (after the
\* reference of the edition when add_default is set), none to the shorter one
\* and no marker of leftover text, and match_wit_simple with the sigla of
\* get_possible_wits takes the whole list of sigla as its second group, the
\* text before and after it as the first and third.
C16_LongerSiglumWhole ==
    /\ (fn = "parse_wits" /\ fn_pc = "return" /\ CitesLongerSiglum) =>
           /\ Len(fn_out.refs) = Len(fn_in.sigla) + (IF fn_in.add_default THEN 1 ELSE 0)
           /\ \A i \in 1..Len(fn_in.sigla) :
                  fn_out.refs[Len(fn_out.refs) - Len(fn_in.sigla) + i]
                      = <<"#">> \o edition_ids(fn_in.doc_num)[fn_in.sigla[i]]
    /\ (fn = "match_wit_simple" /\ fn_pc = "return" /\ CitesLongerSiglum) =>
           fn_out = Returns(<<fn_in.before,
                              SubSeq(fn_in.text, Len(fn_in.before) + 1,
                                     Len(fn_in.text) - Len(fn_in.after)),
                              fn_in.after>>)

C16_Witness ==
    /\ fn = "match_wit_simple" /\ fn_pc = "return"
    /\ fn_in.doc_num = "08"
    /\ fn_in.sigla = <<DJAK03>>
    /\ fn_in.before = <<"x", " ">>
    /\ ~fn_out.none /\ fn_out.val[2] = DJAK03

\* the positions of the segments of one style in a reading side
SegmentsOf(after, style) == {i \in 1..Len(after) : after[i].style = style}

\* the reading side is text, sigla, text, sigla... or sigla, text, sigla, text...
StrictAlternation(after) ==
    /\ \A i \in 1..(Len(after) - 1) : after[i].style # after[i + 1].style
    /\ Cardinality(SegmentsOf(after, None)) = Cardinality(SegmentsOf(after, "italic"))

\* the pairs of a reading side in strict alternation: the j-th text with the
\* sigla after it (text first) or before it (sigla first)
AlternationPairs(after, doc_num) ==
    [j \in 1..(Len(after) \div 2) |->
        IF after[1].style = None
        THEN [wit |-> parse_wits(after[2 * j].text, doc_num, "a", FALSE),
              text |-> after[2 * j - 1].text]
        ELSE [wit |-> parse_wits(after[2 * j - 1].text, doc_num, "b", FALSE),
              text |-> after[2 * j].text]]

Unparsed == <<"u", "n", "p", "a", "r", "s", "e", "d">>

RightReturned ==
    fn = "extract_witnesses_right" /\ fn_pc = "return" /\ Len(fn_in.after) >= 2

PlainSegment(part) ==
    /\ part.style = None
    /\ Strip(part.text) # <<>>
    /\ part.text[1] # "]"

\* the entry is an ordinal, one plain segment, the bracket and one plain
\* segment: neither the lemma nor the reading carries an attribution
ImplicitEntry(parts) ==
    \/ /\ Len(parts) = 4
       /\ parts[1] = Part(None, <<"1">>)
       /\ PlainSegment(parts[2])
       /\ parts[3] = Part(None, <<"]">>)
       /\ PlainSegment(parts[4])
    \/ /\ Len(parts) = 3
       /\ parts[1] = Part(None, <<"1", " ", "x">>)
       /\ parts[2] = Part(None, <<"]">>)
       /\ PlainSegment(parts[3])

ImplicitReturned ==
    /\ fn = "format_critical" /\ fn_pc = "return"
    /\ ~fn_in.wits.given
    /\ ImplicitEntry(fn_in.parts)

MergeReturned == fn = "special_merge" /\ fn_pc = "return" /\ fn_out.exc = ""

\* (ordinal, lemma text) of an entry
HeadOf(entry) == <<entry.num, entry.lem[1].text>>

Range(f) == {f[i] : i \in DOMAIN f}

\* the witnesses a witness list names
WitsOf(wit) == {w \in Range(re_split({" "}, wit)) : w # <<>>}

\* the readings (entry, reading) of entries with ordinal and lemma h and text t
ReadingsOf(entries, h, t) ==
    {<<i, j>> \in (1..Len(entries)) \X (1..MaxEntries * 2) :
        /\ j <= Len(entries[i].rdg)
        /\ HeadOf(entries[i]) = h
        /\ entries[i].rdg[j].text = t}

\* the (ordinal, lemma, reading text, witness) attestations of entries
Attestations(entries) ==
    UNION {{<<HeadOf(entries[i]), entries[i].rdg[j].text, w>>
              : w \in WitsOf(entries[i].rdg[j].wit)}
             : <<i, j>> \in {<<i, j>> \in (1..Len(entries)) \X (1..MaxEntries * 2) :
                               j <= Len(entries[i].rdg)}}

\* the groups of the input that hold a reading t under ordinal and lemma h
GroupsAttesting(entries, h, t) ==
    {entry_wit(entries[p[1]]) : p \in ReadingsOf(entries, h, t)}

OneEntryPerHead ==
    MergeReturned =>
        \A i, j \in 1..Len(fn_out.val) :
            (i < j /\ HeadOf(fn_out.val[i]) = HeadOf(fn_out.val[j])) =>
                \E a, b \in 1..Len(fn_in) :
                    /\ a < b
                    /\ entry_wit(fn_in[a]) = entry_wit(fn_in[b])
                    /\ HeadOf(fn_in[a]) = HeadOf(fn_in[b])
                    /\ HeadOf(fn_in[a]) = HeadOf(fn_out.val[i])

InputHeads == {HeadOf(fn_in[i]) : i \in 1..Len(fn_in)}
InputTexts == UNION {{fn_in[i].rdg[j].text : j \in 1..Len(fn_in[i].rdg)} : i \in 1..Len(fn_in)}

SharedReadingOnce ==
    MergeReturned =>
        \A h \in InputHeads, t \in InputTexts :
            Cardinality(GroupsAttesting(fn_in, h, t)) >= 2 =>
                /\ Cardinality(ReadingsOf(fn_out.val, h, t)) = 1
                /\ \A p \in ReadingsOf(fn_out.val, h, t), q \in ReadingsOf(fn_in, h, t) :
                       WitsOf(fn_in[q[1]].rdg[q[2]].wit)
                           \subseteq WitsOf(fn_out.val[p[1]].rdg[p[2]].wit)

SingleReadingKept ==
    MergeReturned =>
        \A h \in InputHeads, t \in InputTexts :
            Cardinality(ReadingsOf(fn_in, h, t)) = 1 =>
                \E p \in ReadingsOf(fn_out.val, h, t), q \in ReadingsOf(fn_in, h, t) :
                    fn_out.val[p[1]].rdg[p[2]].wit = fn_in[q[1]].rdg[q[2]].wit

NoAttestationLost ==
    MergeReturned => Attestations(fn_in) \subseteq Attestations(fn_out.val)

\* no group of the page holds two entries of one ordinal and lemma
NoRepeatInGroup ==
    \A a, b \in 1..Len(fn_in) :
        (a < b /\ entry_wit(fn_in[a]) = entry_wit(fn_in[b]))
            => HeadOf(fn_in[a]) # HeadOf(fn_in[b])

\* C19: after the merge of an apparatus page in special mode (no group of
\* which holds an ordinal and lemma twice) the page holds one entry per
\* ordinal and lemma; a reading text attested in several groups stands once
\* under its ordinal and lemma, with the witnesses of all those groups; a
\* reading attested once is kept with its witnesses; and every (ordinal,
\* lemma, reading text, witness) attestation of the input is in the output.
C19_MergeCombinesGroups ==
    (fn = "special_merge" /\ NoRepeatInGroup) =>
        /\ OneEntryPerHead
        /\ SharedReadingOnce
        /\ SingleReadingKept
        /\ NoAttestationLost

\* the pb nodes of the page add_critical_apparatus is at, and the paragraph
\* that holds a node
PagePbs ==
    UNION {{tree[p].kids[k].id : k \in {k \in 1..Len(tree[p].kids) :
                                           /\ tree[p].kids[k].tag = "pb"
                                           /\ tree[p].kids[k].n = pe_number}}
             : p \in 1..Len(tree)}

ParagraphOf(id) ==
    CHOOSE p \in 1..Len(tree) : \E k \in 1..Len(tree[p].kids) : tree[p].kids[k].id = id

\* C20: when add_critical_apparatus takes the next entry of a page and its
\* ordinal is smaller than that of the entry before it, the scan position is
\* set back to the pb of the page (current and saved_current are the pb, the
\* tail search is on, the start paragraph is the paragraph of the pb) and the
\* search begins, no error being raised; when the ordinal is not smaller, or
\* there is no entry before it, the scan position stays as it is.
C20_OrdinalDrop ==
    [][(pc = "k_next" /\ queue # <<>>) =>
          IF prev_number # 0 /\ Head(queue).number < prev_number
          THEN /\ current' \in PagePbs
               /\ current' = start
               /\ saved_current' = current'
               /\ look_in_tail'
               /\ start_current_parent' = ParagraphOf(current')
               /\ pc' = "k_search"
          ELSE /\ UNCHANGED <<current, saved_current, look_in_tail, start_current_parent>>
               /\ pc' = "k_search"]_vars

C20_Witness ==
    /\ pc = "k_search" /\ event = "next"
    /\ placed # <<>>
    /\ Last(placed).kind = "critical"
    /\ Last(placed).page = pe_number
    /\ Last(placed).i + 1 = Len(critical[pe_number]) - Len(queue)
    /\ ann.number < Last(placed).number
    /\ current = start /\ saved_current = start /\ look_in_tail
    /\ Last(placed).app # start

\* the labels of the model that reduce to nothing: empty, white space, soft
\* hyphens, ellipsis runs
NothingLabels ==
    {<<>>, <<" ">>, <<SoftHyphen>>, <<SoftHyphen, " ", SoftHyphen>>,
     <<".", ".", ".">>, <<EllipsisChar>>, <<".", " ", ".", " ", ".">>,
     <<".", ".", ".", " ", ".", ".", ".">>}

SearchReturned == fn = "create_label_regex" /\ fn_pc = "return"

\* C21: the matcher create_label_regex makes of a label that reduces to
\* nothing (empty, only white space or soft hyphens, only ellipsis runs)
\* succeeds on no field text (the text of the sentinel itself,
\* IMPOSSIBLE_MATCH_PLACEHOLDER, set aside).
C21_NothingNeverMatches ==
    (SearchReturned /\ fn_in.label \in NothingLabels /\ fn_in.text # <<Placeholder>>)
        => ~fn_out.m.found

\* Labels 'x', run of periods, 'y', one for each shape of run the
\* specification names.
WildLabels ==
    {<<"x", ".", ".", "y">>, <<"x", ".", " ", ".", "y">>,
     <<"x", ".", ".", ".", "y">>, <<"x", ".", ".", " ", ".", "y">>,
     <<"x", ".", " ", ".", " ", ".", "y">>}

\* Field texts 'x', some characters, 'y', in which 'x' is a whole word.
WildTexts ==
    {t \in SearchTexts : /\ Len(t) >= 3
                         /\ t[1] = "x" /\ t[Len(t)] = "y"
                         /\ ~IsWord(t[2])}

\* C22: a label 'x', run of two or more periods (with or without single
\* spaces), 'y' matches every text 'x', any characters, 'y' from its first to
\* its last character; the single period of the label 'x.y' matches only a
\* period.
C22_RunsAreWildcards ==
    /\ (SearchReturned /\ fn_in.label \in WildLabels /\ fn_in.text \in WildTexts)
           => (fn_out.m.found /\ fn_out.m.start = 0 /\ fn_out.m.end = Len(fn_in.text))
    /\ (SearchReturned /\ fn_in.label = <<"x", ".", "y">> /\ fn_out.m.found)
           => occurs_in(<<".">>, fn_in.text)

\* the fields of paragraph e of a tree: its head text and its kids' tails
FieldsOf(tr, e) == <<tr[e].text>> \o [k \in 1..Len(tr[e].kids) |-> tr[e].kids[k].tail]

\* occurrences of the marker of footnote n in paragraph e of a tree
MarkerCount(tr, e, n) ==
    LET t == Flatten(FieldsOf(tr, e))
    IN  Cardinality({i \in 1..Len(t) : t[i] \in FootnoteMarkers /\ footnote_num(t[i]) = n})

\* anchor + note insertions made for the marker of footnote n in paragraph e
Insertions(e, n) ==
    Cardinality({i \in 1..Len(fn_out.consumed) : fn_out.consumed[i] = <<e, n>>})

FootnotesRunning == fn = "add_footnotes" /\ fn_pc # "call"

\* markers of all the fields of a tree
Markers(tr) ==
    LET t == Flatten([e \in 1..Len(tr) |-> Flatten(FieldsOf(tr, e))])
    IN  Cardinality({i \in 1..Len(t) : t[i] \in FootnoteMarkers})

\* C23: add_footnotes terminates and every marker <FN_n> of a paragraph
\* causes at most one anchor + note insertion: the insertions made for
\* footnote n in a paragraph never outnumber the markers of n the paragraph
\* holds, and every iteration of the while loop either consumes a marker or
\* ends the loop of its paragraph, so that the iterations never outnumber
\* the markers plus the paragraphs of the tree.
C23_FootnotesTerminate ==
    FootnotesRunning =>
        /\ \A e \in 1..Len(fn_in.tree) : \A n \in 1..2 :
               Insertions(e, n) <= MarkerCount(fn_in.tree, e, n)
        /\ fn_out.scans <= Markers(fn_in.tree) + Len(fn_in.tree)

\* an iteration of the search loop of add_critical_apparatus has just run
CriticalIterated == pc \in {"k_search", "k_next"} /\ event \in {"moved", "placed"}

\* the index in placed of the placement made before the entry under search
PreviousPlacement == Len(placed) - (IF event = "placed" THEN 1 ELSE 0)

\* the entry under search is the successor, on the same page and without an
\* ordinal drop, of the entry that was placed last
FollowsPlacement ==
    LET n == PreviousPlacement
    IN  /\ n >= 1
        /\ placed[n].kind = "critical"
        /\ placed[n].page = pe_number
        /\ placed[n].i + 1 = Len(critical[pe_number]) - Len(queue)
        /\ placed[n].number <= ann.number

\* C24: in the critical pass the search for the entry that follows a placed
\* entry of the same page (no ordinal drop) tests only fields at or after the
\* inserted app node and places its own app after that node; in the comment
\* pass the search of every comment starts at the pb of the page.
C24_SearchFollowsInsertion ==
    /\ (CriticalIterated /\ FollowsPlacement) =>
          /\ \A pr \in probes :
                 ProbePos(tree, pr) >= NodePos(tree, placed[PreviousPlacement].app)
          /\ event = "placed" =>
                 NodePos(tree, Last(placed).app)
                     > NodePos(tree, placed[PreviousPlacement].app)
    /\ (pc = "c_search" /\ event = "next") =>
          /\ current = start
          /\ current = xpath_pb(tree, pe_number)[1]

\* the label of the annotation whose search has just failed, and the node
\* its search started at
FailedLabel == IF pc = "k_next" THEN ann.lem.text ELSE ann.label
FailedFrom == IF pc = "k_next" THEN saved_current ELSE start

\* the styled runs that lie after the node the search started at and before
\* the next pb, and whose head text holds the label
RunsHoldingLabel ==
    LET nx == NextPb(tree, start)
    IN  {id \in NodeIds(tree) :
            /\ NodeOf(tree, id).tag \in ENCLOSING_TAGS
            /\ NodePos(tree, id) > NodePos(tree, FailedFrom)
            /\ (nx = 0 \/ NodePos(tree, id) < NodePos(tree, nx))
            /\ regex_search(create_label_regex(FailedLabel),
                            strip_accents(safe(NodeOf(tree, id).text))).found}

\* C25: the head text of every visited node is tested, for comments and for
\* apparatus entries: no search fails while a styled run within the scope of
\* the page holds the label in its head text.
C25_RunTextTested == event = "failed" => RunsHoldingLabel = {}

\* a search of one of the two passes is under way or has just ended
Searching == pc \in {"c_search", "c_next", "k_search", "k_next"}

\* C26: the search of an annotation of page N tests only fields located at
\* or after the pb of page N, and a placed node stands after that pb.
C26_NothingBeforeAnchor ==
    Searching =>
        /\ \A pr \in probes : ProbePos(tree, pr) >= NodePos(tree, start)
        /\ event = "placed" => NodePos(tree, Last(placed).node) > NodePos(tree, start)

\* the fields add_critical_apparatus can test from the saved position on:
\* the tails of the nodes from that node up to the next pb and the head texts
\* of the paragraphs after its paragraph up to the paragraph of that pb
FieldsAhead ==
    LET nx == NextPb(tree, saved_current)
    IN  {NodeOf(tree, id).tail :
            id \in {i \in NodeIds(tree) :
                      /\ NodePos(tree, i) >= NodePos(tree, saved_current)
                      /\ (nx = 0 \/ NodePos(tree, i) < NodePos(tree, nx))}}
        \cup
        {tree[p].text :
            p \in {q \in 1..Len(tree) :
                      /\ q > getparent(tree, saved_current)
                      /\ (nx = 0 \/ q <= getparent(tree, nx))}}

\* look_in_tail when no entry of the page has failed: the head text is next
\* only after a placement in the head text of a paragraph
ModeAtSavedPosition ==
    ~(NodeOf(tree, saved_current).tag = "app" /\ index(tree, saved_current) = 0)

EntryFailed == pc = "k_next" /\ event = "failed"

\* C27: a failed entry leaves the search state as it was before the entry:
\* the cursor is the saved position, the start paragraph is unchanged and
\* look_in_tail is what it was; and no entry fails whose lemma occurs in a
\* field after the saved position within the scope of the page.
C27_FailureIsolated ==
    /\ EntryFailed =>
          /\ current = saved_current
          /\ look_in_tail = ModeAtSavedPosition
    /\ EntryFailed =>
          \A f \in FieldsAhead :
              ~regex_search(create_label_regex(ann.lem.text), strip_accents(safe(f))).found

\* the tree of the run: the tree add_footnotes works on once it is entered
RunTree == IF FootnotesRunning THEN fn_out.tree ELSE tree

\* the anchors of the tree
Anchors == {id \in NodeIds(RunTree) : NodeOf(RunTree, id).tag = "anchor"}

\* C28: no two anchors inserted by add_comments and add_footnotes carry the
\* same index.
C28_AnchorIdsUnique ==
    \A x, y \in Anchors :
        NodeOf(RunTree, x).n = NodeOf(RunTree, y).n => x = y

\* the anchors and the gloss apps of the tree (the app of an apparatus entry
\* carries no index)
GlossAnchors == {id \in NodeIds(tree) : NodeOf(tree, id).tag = "anchor"}
GlossApps == {id \in NodeIds(tree) : NodeOf(tree, id).tag = "app" /\ NodeOf(tree, id).n > 0}

\* the visible text between an anchor and an app
TextBetween(a, app) ==
    Slice(VisibleText(tree), TextOffset(tree, a), TextOffset(tree, app))

\* add_comments is running or has returned, add_critical_apparatus has not begun
CommentsPlaced == pc \in {"c_page", "c_next", "c_search", "add_critical"}

\* C29: while comments are placed, every gloss app refers to exactly one
\* anchor and every anchor is referred to by exactly one app; the anchor
\* precedes its app; the text between the anchor and the app of a placement
\* is the text the label matched; the app holds the label of its comment.
C29_GlossIntegrity ==
    CommentsPlaced =>
        /\ \A app \in GlossApps :
               Cardinality({a \in GlossAnchors : NodeOf(tree, a).n = NodeOf(tree, app).n}) = 1
        /\ \A a \in GlossAnchors :
               Cardinality({app \in GlossApps : NodeOf(tree, app).n = NodeOf(tree, a).n}) = 1
        /\ \A a \in GlossAnchors : \A app \in GlossApps :
               NodeOf(tree, app).n = NodeOf(tree, a).n => NodePos(tree, a) < NodePos(tree, app)
        /\ (event = "placed" /\ splice.anchor # 0) =>
               TextBetween(splice.anchor, splice.app) = text_label(splice.field, splice.m)
        /\ \A i \in PlacedOf("comment") :
               NodeOf(tree, placed[i].app).label = placed[i].label

SplitReturned == fn = "split" /\ fn_pc = "return" /\ fn_out.m.found

\* C30: the segment cut out of a field at the offsets of a match is the
\* segment whose accent-stripped form was matched, and the three pieces make
\* up the field.
C30_SplitOffsetsValid ==
    SplitReturned =>
        /\ strip_accents(fn_out.label) = text_label(strip_accents(fn_in.text), fn_out.m)
        /\ fn_out.before \o fn_out.label \o fn_out.after = fn_in.text

====
